---- MODULE Spec2Model ----
(***************************************************************************)
(* solana-tools: batch orchestration of native (SOL) and token transfers.  *)
(* One orchestration call is modelled as a sequential process: every step  *)
(* is the code between two awaits (one RPC round trip and the synchronous  *)
(* code that follows it).                                                   *)
(*                                                                         *)
(* Representation                                                          *)
(*   - a JS number that may be fractional (amount, uiAmount) is held as an *)
(*     integer count of thousandths (Milli): 0.5 is 500, 1 is 1000;        *)
(*   - lamports and raw token amounts are integers;                        *)
(*   - a nullable value is a sequence of length 0 (null/undefined) or 1;   *)
(*   - wallet addresses are naturals, the token sub-account (ATA) of       *)
(*     wallet w is the negative integer -(w+1).                            *)
(***************************************************************************)
EXTENDS Integers, Sequences, FiniteSets, TLC

VARIABLES
    op,                         \* the exported function being run
    sources,                    \* sources: Keypair[] (their addresses)
    amount,                     \* amount argument, nullable, in Milli
    payer,                      \* payer: Keypair (its address)
    target,                     \* target: PublicKey
    data,                       \* group(): the data argument
    size,                       \* group(): the size argument
    queryAccounts,              \* accounts: PublicKey[] of the balance queries
    targets,                    \* targets: PublicKey[] of allocationSOL
    offCurve,                   \* the addresses that are not on the ed25519 curve
    nativePat,                  \* ledger: native accounts of wallets 1.. (periodic); in a
                                \* token balance query, the lamports of their sub-accounts
    nativeExt,                  \* ledger: native account of wallet 0
    tokenPat,                   \* ledger: token sub-accounts of wallets 1.. (periodic)
    tokenExt,                   \* ledger: token sub-account of wallet 0
    decimals,                   \* ledger: decimals of the mint
    mintInfo,                   \* ledger: what getAccountInfo(mint) finds
    pc,                         \* position of the call
    raised,                     \* message of the error the call raised, "" if none
    balance,                    \* const balance (nullable until fetched)
    accountGroups,              \* const accountGroups
    chunk,                      \* index of the next accountGroups element to probe
    instructionAndSigners,      \* const instructionAndSigners (the plan)
    instructionAndSignerGroups, \* the batches
    ataInstruction,             \* let ataInstruction = []
    batch,                      \* index of the batch being processed
    blockhash,                  \* const { blockhash } of the current iteration (nullable)
    transaction,                \* the transaction handed to sendAndConfirmTransaction
    sent,                       \* history: every transaction submitted, in order
    outcomes,                   \* history: what was printed per batch: "table" or "warn"
    calls,                      \* history: RPC calls issued, in order
    result,                     \* return value of group() and of the balance queries
    res                         \* const res = [] of the balance queries

inputs == <<op, sources, amount, payer, target, data, size, queryAccounts, targets,
           offCurve>>
ledger == <<nativePat, nativeExt, tokenPat, tokenExt, decimals, mintInfo>>
locals == <<balance, accountGroups, chunk, instructionAndSigners,
            instructionAndSignerGroups, ataInstruction, batch, blockhash, transaction>>
history == <<sent, outcomes, calls>>
vars == <<inputs, ledger, pc, raised, locals, history, result, res>>

----------------------------------------------------------------------------
(* Bounds of the model *)

MaxNativeSources == 21
MaxTokenSources == 11
MaxGroupLen == 4
MaxGroupSize == 5
MaxGroupSpins == 3
MaxQueryAccounts == 51
MaxMintTargets == 11

(* Program constants *)

LAMPORTS_PER_SOL == 1000000000
AllocationGroupSize == 20
SolProbeSize == 20
SolGroupSize == 20
TokenProbeSize == 50
TokenGroupSize == 10
CloseGroupSize == 5
QueryGroupSize == 50
AtaInfoGroupSize == 10
MintGroupSize == 5

----------------------------------------------------------------------------
(* Values *)

Null == <<>>
Some(x) == <<x>>
IsNull(x) == x = <<>>
Val(x) == x[1]

Min(a, b) == IF a < b THEN a ELSE b

RECURSIVE Pow10(_)
Pow10(d) == IF d = 0 THEN 1 ELSE 10 * Pow10(d - 1)

\* scale of the Milli representation of fractional JS numbers
MilliPerUnit == Pow10(3)

RECURSIVE Flatten(_)
Flatten(ss) == IF ss = <<>> THEN <<>> ELSE Head(ss) \o Flatten(Tail(ss))

\* Number.isInteger on a Milli number.
IsInteger(x) == x % MilliPerUnit = 0

\* BigInt(x) for an integral JS number x (it throws a RangeError otherwise).
BigInt(x) == x \div MilliPerUnit

\* amount * LAMPORTS_PER_SOL, amount in Milli.
ToLamports(x) == x * (LAMPORTS_PER_SOL \div MilliPerUnit)

\* lamports / LAMPORTS_PER_SOL as a Milli number.
ToSol(lamports) == lamports \div (LAMPORTS_PER_SOL \div MilliPerUnit)

\* 0.001 * LAMPORTS_PER_SOL
MinPayerBalance == ToLamports(1)

\* getAssociatedTokenAddressSync(mint, owner), one mint.
getAssociatedTokenAddressSync(owner) == -(owner + 1)

----------------------------------------------------------------------------
(* utils: group *)

\* Mutant: the end index is taken as inclusive-minus-one.
sliceShort(d, b, e) == SubSeq(d, b + 1, Min(e - 1, Len(d)))

\* data.slice(b, e) for 0 <= b, b <= e
slice(d, b, e) == SubSeq(d, b + 1, Min(e, Len(d)))

\* data.slice(b, e) for any integers b and e: a negative index counts from the end
sliceRelative(d, b, e) ==
    LET from == IF b < 0 THEN (IF Len(d) + b < 0 THEN 0 ELSE Len(d) + b) ELSE Min(b, Len(d))
        to == IF e < 0 THEN (IF Len(d) + e < 0 THEN 0 ELSE Len(d) + e) ELSE Min(e, Len(d))
    IN  SubSeq(d, from + 1, to)

RECURSIVE groupLoop(_, _, _)
groupLoop(d, s, i) ==
    IF i < Len(d) THEN <<slice(d, i, i + s)>> \o groupLoop(d, s, i + s) ELSE <<>>

\* Mutant: every chunk takes one element more than asked.
groupOversize(d, s) == groupLoop(d, s + 1, 0)

\* Mutant: an empty chunk follows the chunks of the data.
groupTrailingEmpty(d, s) == Append(groupLoop(d, s, 0), <<>>)

group(d, s) == groupLoop(d, s, 0)

----------------------------------------------------------------------------
(* The ledger, as seen through the RPC connection *)

Periodic(pat, w) == pat[((w - 1) % Len(pat)) + 1]

\* the native account of wallet w: Null or Some(lamports)
NativeAccount(w) == IF w = 0 THEN nativeExt ELSE Periodic(nativePat, w)

\* the token sub-account of wallet w: Null or Some(raw amount)
TokenAccount(w) == IF w = 0 THEN tokenExt ELSE Periodic(tokenPat, w)

\* connection.getBalance(address)
getBalance(w) == IF IsNull(NativeAccount(w)) THEN 0 ELSE Val(NativeAccount(w))

\* connection.getMultipleAccountsInfo(addresses)
getMultipleAccountsInfo(ws) == [i \in 1..Len(ws) |-> NativeAccount(ws[i])]

\* connection.getMultipleParsedAccounts(atas).value; each entry Null or
\* Some([amount, uiAmount, decimals]) (the tokenAmount of the parsed data)
ParsedTokenAccount(ata) ==
    LET acc == TokenAccount(-ata - 1) IN
    IF IsNull(acc) THEN Null
    ELSE Some([amount |-> Val(acc),
               uiAmount |-> (Val(acc) * MilliPerUnit) \div Pow10(decimals),
               decimals |-> decimals])

getMultipleParsedAccounts(atas) == [i \in 1..Len(atas) |-> ParsedTokenAccount(atas[i])]

\* item.lamports of an entry of getMultipleParsedAccounts(atas).value
SubAccountLamports(ata) ==
    LET acc == Periodic(nativePat, -ata - 1) IN IF IsNull(acc) THEN 0 ELSE Val(acc)

\* connection.getParsedAccountInfo(ata).value
getParsedAccountInfo(ata) == ParsedTokenAccount(ata)

----------------------------------------------------------------------------
(* Instructions and transactions *)

\* SystemProgram.transfer({fromPubkey, toPubkey, lamports})
SystemTransfer(from, to, lamports) ==
    [kind |-> "systemTransfer", from |-> from, to |-> to, owner |-> from, amount |-> lamports]

\* createTransferInstruction(source, destination, owner, amount)
createTransferInstruction(source, destination, owner, amt) ==
    [kind |-> "tokenTransfer", from |-> source, to |-> destination, owner |-> owner, amount |-> amt]

\* createCloseAccountInstruction(account, destination, authority)
createCloseAccountInstruction(account, destination, authority) ==
    [kind |-> "close", from |-> account, to |-> destination, owner |-> authority, amount |-> 0]

\* createAssociatedTokenAccountInstruction(payer, associatedToken, owner, mint)
createAssociatedTokenAccountInstruction(p, ata, owner) ==
    [kind |-> "createAta", from |-> p, to |-> ata, owner |-> owner, amount |-> 0]

\* Mutant: the instructions of the batch are added last item first.
RECURSIVE NonNullInstructionsReversed(_)
NonNullInstructionsReversed(items) ==
    IF items = <<>> THEN <<>>
    ELSE NonNullInstructionsReversed(Tail(items)) \o Head(items).instruction

\* createMintToInstruction(mint, destination, authority, amount, [])
createMintToInstruction(destination, authority, amt) ==
    [kind |-> "mintTo", from |-> authority, to |-> destination, owner |-> authority,
     amount |-> amt]

\* items.map(item => item.instruction).filter(item => item != null)
RECURSIVE NonNullInstructions(_)
NonNullInstructions(items) ==
    IF items = <<>> THEN <<>>
    ELSE Head(items).instruction \o NonNullInstructions(Tail(items))

\* items.map(item => item.closeInstruction!)
RECURSIVE CloseInstructions(_)
CloseInstructions(items) ==
    IF items = <<>> THEN <<>>
    ELSE Head(items).closeInstruction \o CloseInstructions(Tail(items))

\* [payer, ...items.map(item => item.signers)]
Signers(p, items) == <<p>> \o [i \in 1..Len(items) |-> items[i].signers]

----------------------------------------------------------------------------
(* sol: getTransferInstructions *)

\* Mutant: under amount 0 one lamport is left behind in the source account.
RECURSIVE getTransferInstructionsLoopLessOne(_, _, _, _, _)
getTransferInstructionsLoopLessOne(balances, accounts, payerKey, amt, i) ==
    IF i > Len(balances) THEN <<>>
    ELSE LET item == balances[i]
             rest == getTransferInstructionsLoopLessOne(balances, accounts, payerKey, amt, i + 1)
         IN  IF IsNull(item) \/ Val(item) = 0 THEN rest
             ELSE LET realAmount == IF amt = 0 THEN Val(item) - 1 ELSE ToLamports(amt)
                  IN  IF realAmount > Val(item) THEN rest
                      ELSE <<[instruction |-> Some(SystemTransfer(accounts[i], payerKey, realAmount)),
                              signers |-> accounts[i],
                              amount |-> ToSol(realAmount),
                              closeInstruction |-> Null]>> \o rest

RECURSIVE getTransferInstructionsLoop(_, _, _, _, _)
getTransferInstructionsLoop(balances, accounts, payerKey, amt, i) ==
    IF i > Len(balances) THEN <<>>
    ELSE LET item == balances[i]
             rest == getTransferInstructionsLoop(balances, accounts, payerKey, amt, i + 1)
         IN  IF IsNull(item) \/ Val(item) = 0 THEN rest
             ELSE LET realAmount == IF amt = 0 THEN Val(item) ELSE ToLamports(amt)
                  IN  IF realAmount > Val(item) THEN rest
                      ELSE <<[instruction |-> Some(SystemTransfer(accounts[i], payerKey, realAmount)),
                              signers |-> accounts[i],
                              amount |-> ToSol(realAmount),
                              closeInstruction |-> Null]>> \o rest

getTransferInstructions(accounts, payerKey, amt) ==
    getTransferInstructionsLoop(getMultipleAccountsInfo(accounts), accounts, payerKey, amt, 1)

----------------------------------------------------------------------------
(* the connection-global module: getTransferInstructions; amt is nullable *)

RECURSIVE legacy_getTransferInstructionsLoop(_, _, _, _, _)
legacy_getTransferInstructionsLoop(balances, accounts, payerKey, amt, i) ==
    IF i > Len(balances) THEN <<>>
    ELSE LET item == balances[i]
             limitAmount == IF IsNull(amt) THEN 1 ELSE ToLamports(Val(amt))
             rest == legacy_getTransferInstructionsLoop(balances, accounts, payerKey, amt, i + 1)
         IN  IF IsNull(item) \/ Val(item) < limitAmount THEN rest
             ELSE LET realAmount == IF IsNull(amt) THEN Val(item) ELSE ToLamports(Val(amt))
                  IN  <<[instruction |-> Some(SystemTransfer(accounts[i], payerKey, realAmount)),
                         signers |-> accounts[i],
                         amount |-> ToSol(realAmount),
                         closeInstruction |-> Null]>> \o rest

legacy_getTransferInstructions(accounts, payerKey, amt) ==
    legacy_getTransferInstructionsLoop(getMultipleAccountsInfo(accounts), accounts,
                                       payerKey, amt, 1)

----------------------------------------------------------------------------
(* token: getTokenTransferInstructions, getAllTokenTransferInstructions *)

\* sources.map(item => ({signer: item, ata: getAssociatedTokenAddressSync(mint, item.publicKey)}))
SignerAndAta(srcs) ==
    [i \in 1..Len(srcs) |-> [signer |-> srcs[i], ata |-> getAssociatedTokenAddressSync(srcs[i])]]

Atas(accounts) == [i \in 1..Len(accounts) |-> accounts[i].ata]

\* The result of a planner: the instructions, or threw = TRUE when BigInt(transferAmount)
\* raised a RangeError on a non-integral number.
RECURSIVE getTokenTransferInstructionsLoop(_, _, _, _, _)
getTokenTransferInstructionsLoop(balances, accounts, targetAta, transferAmount, i) ==
    IF i > Len(balances) THEN [threw |-> FALSE, instructions |-> <<>>]
    ELSE LET item == balances[i]
             rest == getTokenTransferInstructionsLoop(balances, accounts, targetAta,
                                                      transferAmount, i + 1)
         IN  IF IsNull(item) THEN rest
             ELSE IF Val(item).uiAmount < transferAmount THEN rest
             ELSE IF ~IsInteger(transferAmount) THEN [threw |-> TRUE, instructions |-> <<>>]
             ELSE IF rest.threw THEN rest
             ELSE LET amt == BigInt(transferAmount) * Pow10(Val(item).decimals)
                      signer == accounts[i].signer
                  IN  [threw |-> FALSE,
                       instructions |->
                           <<[instruction |-> Some(createTransferInstruction(
                                                  accounts[i].ata, targetAta, signer, amt)),
                              signers |-> signer,
                              amount |-> transferAmount,
                              closeInstruction |-> Null]>> \o rest.instructions]

getTokenTransferInstructions(accounts, targetAta, transferAmount) ==
    getTokenTransferInstructionsLoop(getMultipleParsedAccounts(Atas(accounts)),
                                     accounts, targetAta, transferAmount, 1)

\* Mutant: an empty sub-account is skipped, as the Fixed planner skips it.
RECURSIVE getAllTokenTransferInstructionsSkipEmpty(_, _, _, _)
getAllTokenTransferInstructionsSkipEmpty(balances, accounts, targetAta, i) ==
    IF i > Len(balances) THEN <<>>
    ELSE LET item == balances[i]
             rest == getAllTokenTransferInstructionsSkipEmpty(balances, accounts, targetAta, i + 1)
         IN  IF IsNull(item) \/ Val(item).amount = 0 THEN rest
             ELSE <<[instruction |-> Some(createTransferInstruction(
                                         accounts[i].ata, targetAta, accounts[i].signer,
                                         Val(item).amount)),
                     signers |-> accounts[i].signer,
                     amount |-> Val(item).uiAmount,
                     closeInstruction |-> Some(createCloseAccountInstruction(
                                         accounts[i].ata, accounts[i].signer,
                                         accounts[i].signer))]>> \o rest

RECURSIVE getAllTokenTransferInstructionsLoop(_, _, _, _)
getAllTokenTransferInstructionsLoop(balances, accounts, targetAta, i) ==
    IF i > Len(balances) THEN <<>>
    ELSE LET item == balances[i]
             rest == getAllTokenTransferInstructionsLoop(balances, accounts, targetAta, i + 1)
         IN  IF IsNull(item) THEN rest
             ELSE LET amt == Val(item).amount
                      signer == accounts[i].signer
                      transferInstruction ==
                          IF amt > 0
                          THEN Some(createTransferInstruction(accounts[i].ata, targetAta,
                                                              signer, amt))
                          ELSE Null
                      closeInstruction ==
                          createCloseAccountInstruction(accounts[i].ata, signer, signer)
                  IN  <<[instruction |-> transferInstruction,
                         signers |-> signer,
                         amount |-> Val(item).uiAmount,
                         closeInstruction |-> Some(closeInstruction)]>> \o rest

getAllTokenTransferInstructions(accounts, targetAta) ==
    getAllTokenTransferInstructionsLoop(getMultipleParsedAccounts(Atas(accounts)),
                                        accounts, targetAta, 1)

----------------------------------------------------------------------------
(* Inputs *)

\* n distinct wallets 1..n
Distinct(n) == [i \in 1..n |-> i]

\* n wallets, the last one repeating the first
Repeated(n) == [i \in 1..n |-> IF i = n THEN 1 ELSE i]

SourceLists(max) == {Distinct(n) : n \in 0..max} \cup {Repeated(n) : n \in 2..max}

Amounts == {-MilliPerUnit, 0, MilliPerUnit \div 2, MilliPerUnit}

NativeStates == {Null, Some(0), Some(LAMPORTS_PER_SOL \div 2), Some(LAMPORTS_PER_SOL)}
NativePatterns == {<<x, y>> : x \in NativeStates, y \in NativeStates}
PayerAccounts == {Some(MinPayerBalance - 1), Some(MinPayerBalance), Some(MinPayerBalance + 1)}

\* the fee payer of a native collect and the target of a token collect: a wallet outside
\* the sources (wallet 0), or the first of the sources
Payers == {0, 1}
Targets == {0, 1}

\* the states of wallet 0's account: it is only looked at when w is wallet 0
OutsideAccounts(w, states) == IF w = 0 THEN states ELSE {Null}

TokenStates == {Null, Some(0), Some(5), Some(10)}
TokenPatterns == {<<x, y>> : x \in TokenStates, y \in TokenStates}
TargetAtaStates == {Null, Some(0)}
Decimals == {0, 1}

\* allocationSOL: 0, 0.001 and 0.002 SOL per target
AllocationAmounts == {0, 1, 2}
AllocationPayerAccounts == {Some(0), Some(ToLamports(MaxNativeSources)),
                            Some(ToLamports(2 * MaxNativeSources))}

\* batchMintTo: the mint account is missing, owned by the token-2022 program, owned by
\* another program, or a token mint whose authority is someone else or the payer
MintStates == {"none", "token2022", "otherProgram", "authorityElse", "authorityPayer"}
MintAmounts == {MilliPerUnit \div 2, MilliPerUnit}
ExistencePatterns == {<<x, y>> : x \in {Null, Some(0)}, y \in {Null, Some(0)}}

RentPatterns == {<<Some(LAMPORTS_PER_SOL \div 2)>>,
                 <<Some(LAMPORTS_PER_SOL), Some(LAMPORTS_PER_SOL \div 2)>>}

\* owners that are off the curve: none, or wallet 2 (a program-derived address)
OffCurveSets == {{}, {2}}

GroupData == UNION {[1..n -> {1, 2}] : n \in 0..MaxGroupLen}

----------------------------------------------------------------------------
(* Steps shared by the calls *)

Init ==
    /\ op = "none" /\ sources = <<>> /\ amount = Null /\ payer = 0 /\ target = 0
    /\ data = <<>> /\ size = 0
    /\ queryAccounts = <<>> /\ targets = <<>> /\ offCurve = {}
    /\ nativePat = <<Null>> /\ nativeExt = Null /\ tokenPat = <<Null>> /\ tokenExt = Null
    /\ decimals = 0 /\ mintInfo = "none"
    /\ pc = "idle" /\ raised = ""
    /\ balance = Null /\ accountGroups = <<>> /\ chunk = 0
    /\ instructionAndSigners = <<>> /\ instructionAndSignerGroups = <<>>
    /\ ataInstruction = <<>> /\ batch = 0 /\ blockhash = Null /\ transaction = Null
    /\ sent = <<>> /\ outcomes = <<>> /\ calls = <<>>
    /\ result = Null /\ res = <<>>

\* Mutant: zero is let through.
AmountNegative(a) == a < 0

\* Mutant: only an empty fee payer is rejected.
PayerBalanceZero(b) == b <= 0

\* if (amount <= 0)
AmountNotPositive(a) == a <= 0

\* if (balance < 0.001 * LAMPORTS_PER_SOL)
PayerBalanceTooLow(b) == b < MinPayerBalance

\* throw new Error(msg), uncaught: the call ends
Throw(msg) == pc' = "error" /\ raised' = msg

Rpc(name) == calls' = Append(calls, name)

\* an RPC round trip that rejects outside any try block
RpcThrows(name) ==
    /\ Rpc(name)
    /\ Throw(name)
    /\ UNCHANGED <<inputs, ledger, locals, sent, outcomes, result, res>>

NativeCall(name, p, srcs, a, pat, pb) ==
    /\ op' = name /\ payer' = p /\ sources' = srcs /\ amount' = a
    /\ nativePat' = pat /\ nativeExt' = pb
    /\ pc' = "start"
    /\ UNCHANGED <<target, data, size, queryAccounts, targets, offCurve,
                   tokenPat, tokenExt, decimals, mintInfo, raised, locals, history,
                   result, res>>

\* const balance = await connection.getBalance(payer.publicKey); the reserve check;
\* const accountGroups = group(sources..., probeSize)
CheckPayer(accounts, probeSize) ==
    /\ Rpc("getBalance")
    /\ balance' = Some(getBalance(payer))
    /\ IF PayerBalanceTooLow(getBalance(payer))
       THEN /\ Throw("payer balance is not enough")
            /\ UNCHANGED <<accountGroups, chunk>>
       ELSE /\ accountGroups' = group(accounts, probeSize)
            /\ chunk' = 1
            /\ pc' = "probe"
            /\ UNCHANGED raised
    /\ UNCHANGED <<inputs, ledger, instructionAndSigners, instructionAndSignerGroups,
                   ataInstruction, batch, blockhash, transaction, sent, outcomes, result, res>>

\* one iteration of: for (const accounts of accountGroups) { ... planner ... push }
ProbeNative(amt) ==
    /\ chunk <= Len(accountGroups)
    /\ Rpc("getMultipleAccountsInfo")
    /\ instructionAndSigners' =
           instructionAndSigners \o getTransferInstructions(accountGroups[chunk], payer, amt)
    /\ chunk' = chunk + 1
    /\ UNCHANGED <<inputs, ledger, pc, raised, balance, accountGroups,
                   instructionAndSignerGroups, ataInstruction, batch, blockhash,
                   transaction, sent, outcomes, result, res>>

\* const instructionAndSignerGroups = group(instructionAndSigners, cap), no lookup
BatchNative(cap) ==
    /\ chunk > Len(accountGroups)
    /\ instructionAndSignerGroups' = group(instructionAndSigners, cap)
    /\ batch' = 1
    /\ pc' = "send"
    /\ UNCHANGED <<inputs, ledger, raised, balance, accountGroups, chunk,
                   instructionAndSigners, ataInstruction, blockhash, transaction,
                   history, result, res>>

\* new Transaction().add(...instructions); feePayer; sendAndConfirmTransaction(...) issued
SendNative ==
    /\ batch <= Len(instructionAndSignerGroups)
    /\ LET items == instructionAndSignerGroups[batch]
           tx == [instructions |-> NonNullInstructions(items),
                  feePayer |-> Some(payer),
                  recentBlockhash |-> Null,
                  signers |-> Signers(payer, items)]
       IN  /\ transaction' = Some(tx)
           /\ sent' = Append(sent, [batch |-> batch, transaction |-> tx])
    /\ Rpc("sendAndConfirmTransaction")
    /\ pc' = "confirm"
    /\ UNCHANGED <<inputs, ledger, raised, balance, accountGroups, chunk,
                   instructionAndSigners, instructionAndSignerGroups, ataInstruction,
                   batch, blockhash, outcomes, result, res>>

\* the loop over the batches is exhausted: the call returns
Return ==
    /\ batch > Len(instructionAndSignerGroups)
    /\ pc' = "done"
    /\ UNCHANGED <<inputs, ledger, raised, locals, history, result, res>>

\* instructionAndSignerGroup.map(item => item.signers.publicKey.toBase58())
BatchAddresses ==
    [i \in 1..Len(instructionAndSignerGroups[batch]) |->
         instructionAndSignerGroups[batch][i].signers]

\* the amount column of console.table(instructionAndSignerGroup.map(...))
BatchAmounts ==
    [i \in 1..Len(instructionAndSignerGroups[batch]) |->
         instructionAndSignerGroups[batch][i].amount]

\* Mutant: after a confirmed batch the sources are probed again.
ConfirmedReprobes(loopHead) ==
    /\ outcomes' = Append(outcomes, [batch |-> batch, kind |-> "table", tx |-> Len(sent),
                                     addresses |-> BatchAddresses,
                                     amounts |-> BatchAmounts])
    /\ batch' = batch + 1
    /\ transaction' = Null
    /\ pc' = loopHead
    /\ Rpc("getMultipleAccountsInfo")
    /\ UNCHANGED <<inputs, ledger, raised, balance, accountGroups, chunk,
                   instructionAndSigners, instructionAndSignerGroups, ataInstruction,
                   blockhash, sent, result, res>>

\* sendAndConfirmTransaction resolved: console.log(tx); console.table(...);
\* the transaction id is the rank of the submission
Confirmed(loopHead) ==
    /\ outcomes' = Append(outcomes, [batch |-> batch, kind |-> "table", tx |-> Len(sent),
                                     addresses |-> BatchAddresses,
                                     amounts |-> BatchAmounts])
    /\ batch' = batch + 1
    /\ transaction' = Null
    /\ pc' = loopHead
    /\ UNCHANGED <<inputs, ledger, raised, balance, accountGroups, chunk,
                   instructionAndSigners, instructionAndSignerGroups, ataInstruction,
                   blockhash, sent, calls, result, res>>

\* Mutant: the rejection is not caught and ends the call.
CaughtRethrows(loopHead) ==
    /\ Throw("sendAndConfirmTransaction")
    /\ UNCHANGED <<inputs, ledger, locals, history, result, res>>

\* Mutant: the failed batch is warned about and submitted again.
CaughtRetries(loopHead) ==
    /\ outcomes' = Append(outcomes, [batch |-> batch, kind |-> "warn",
                                     addresses |-> BatchAddresses])
    /\ transaction' = Null
    /\ pc' = loopHead
    /\ UNCHANGED <<inputs, ledger, raised, balance, accountGroups, chunk,
                   instructionAndSigners, instructionAndSignerGroups, ataInstruction,
                   batch, blockhash, sent, calls, result, res>>

\* Mutant: the rejection is swallowed without a warning.
CaughtSilently(loopHead) ==
    /\ batch' = batch + 1
    /\ transaction' = Null
    /\ pc' = loopHead
    /\ UNCHANGED <<inputs, ledger, raised, balance, accountGroups, chunk,
                   instructionAndSigners, instructionAndSignerGroups, ataInstruction,
                   blockhash, history, result, res>>

\* sendAndConfirmTransaction rejected inside try: catch (error) { console.warn(...) }
Caught(loopHead) ==
    /\ outcomes' = Append(outcomes, [batch |-> batch, kind |-> "warn",
                                     addresses |-> BatchAddresses])
    /\ batch' = batch + 1
    /\ transaction' = Null
    /\ pc' = loopHead
    /\ UNCHANGED <<inputs, ledger, raised, balance, accountGroups, chunk,
                   instructionAndSigners, instructionAndSignerGroups, ataInstruction,
                   blockhash, sent, calls, result, res>>

----------------------------------------------------------------------------
(* utils: group, called directly *)

Call_group ==
    /\ pc = "idle"
    /\ \E d \in GroupData, s \in -1..MaxGroupSize :
           /\ op' = "group" /\ data' = d /\ size' = s
    /\ pc' = "start"
    /\ UNCHANGED <<sources, amount, payer, target, queryAccounts, targets, offCurve,
                   ledger, raised, locals, history, result, res>>

\* the chunks pushed so far by a loop that is still running
Pushed == IF IsNull(result) THEN <<>> ELSE Val(result)

\* size <= 0 on non-empty data: i never grows, so i < data.length holds at every test;
\* one iteration of the loop, which has no exit (followed for MaxGroupSpins iterations)
group_iterate ==
    /\ pc = "start" /\ op = "group"
    /\ size <= 0
    /\ LET i == Len(Pushed) * size
       IN  /\ i < Len(data)
           /\ Len(Pushed) < MaxGroupSpins
           /\ result' = Some(Append(Pushed, sliceRelative(data, i, i + size)))
    /\ UNCHANGED <<inputs, ledger, pc, raised, locals, history, res>>

\* the loop runs to its exit (size >= 1, or nothing to iterate over) and result is returned
group_return ==
    /\ pc = "start" /\ op = "group"
    /\ size >= 1 \/ data = <<>>
    /\ result' = Some(group(data, size))
    /\ pc' = "done"
    /\ UNCHANGED <<inputs, ledger, raised, locals, history, res>>

----------------------------------------------------------------------------
(* sol: collectSOL *)

Call_collectSOL ==
    /\ pc = "idle"
    /\ \E p \in Payers, srcs \in SourceLists(MaxNativeSources), a \in Amounts,
          pat \in NativePatterns :
           \E pb \in OutsideAccounts(p, PayerAccounts) :
               NativeCall("collectSOL", p, srcs, Some(a), pat, pb)

collectSOL_start ==
    /\ pc = "start" /\ op = "collectSOL"
    /\ IF AmountNotPositive(Val(amount))
       THEN /\ Throw("amount must be greater than 0")
            /\ UNCHANGED <<inputs, ledger, locals, history, result, res>>
       ELSE \/ CheckPayer(sources, SolProbeSize)
            \/ RpcThrows("getBalance")

collectSOL_probe ==
    /\ pc = "probe" /\ op = "collectSOL"
    /\ \/ ProbeNative(Val(amount))
       \/ chunk <= Len(accountGroups) /\ RpcThrows("getMultipleAccountsInfo")
       \/ BatchNative(SolGroupSize)

collectSOL_send ==
    /\ pc = "send" /\ op = "collectSOL"
    /\ \/ SendNative
       \/ Return

collectSOL_confirm ==
    /\ pc = "confirm" /\ op = "collectSOL"
    /\ \/ Confirmed("send")
       \/ Caught("send")

----------------------------------------------------------------------------
(* sol: collectAllSOL *)

Call_collectAllSOL ==
    /\ pc = "idle"
    /\ \E p \in Payers, srcs \in SourceLists(MaxNativeSources), pat \in NativePatterns :
           \E pb \in OutsideAccounts(p, PayerAccounts) :
               NativeCall("collectAllSOL", p, srcs, Null, pat, pb)

collectAllSOL_start ==
    /\ pc = "start" /\ op = "collectAllSOL"
    /\ \/ CheckPayer(sources, SolProbeSize)
       \/ RpcThrows("getBalance")

collectAllSOL_probe ==
    /\ pc = "probe" /\ op = "collectAllSOL"
    /\ \/ ProbeNative(0)
       \/ chunk <= Len(accountGroups) /\ RpcThrows("getMultipleAccountsInfo")
       \/ BatchNative(SolGroupSize)

collectAllSOL_send ==
    /\ pc = "send" /\ op = "collectAllSOL"
    /\ \/ SendNative
       \/ Return

collectAllSOL_confirm ==
    /\ pc = "confirm" /\ op = "collectAllSOL"
    /\ \/ Confirmed("send")
       \/ Caught("send")

----------------------------------------------------------------------------
(* Steps shared by the token calls *)

TokenCall(name, t, srcs, a, pat, dec, ext, pb) ==
    /\ op' = name /\ target' = t /\ sources' = srcs /\ amount' = a
    /\ tokenPat' = pat /\ decimals' = dec /\ tokenExt' = ext /\ nativeExt' = pb
    /\ pc' = "start"
    /\ UNCHANGED <<payer, data, size, queryAccounts, targets, offCurve,
                   nativePat, mintInfo, raised, locals, history, result, res>>

targetAta == getAssociatedTokenAddressSync(target)

\* const instructionAndSignerGroup = group(instructionAndSigners, cap);
\* const ataInfo = await connection.getParsedAccountInfo(targetAta);
\* let ataInstruction = []; if (ataInfo.value == null) ataInstruction.push(create...)
LookupTarget(cap) ==
    /\ chunk > Len(accountGroups)
    /\ instructionAndSignerGroups' = group(instructionAndSigners, cap)
    /\ Rpc("getParsedAccountInfo")
    /\ ataInstruction' =
           IF IsNull(getParsedAccountInfo(targetAta))
           THEN <<createAssociatedTokenAccountInstruction(payer, targetAta, target)>>
           ELSE <<>>
    /\ batch' = 1
    /\ pc' = "blockhash"
    /\ UNCHANGED <<inputs, ledger, raised, balance, accountGroups, chunk,
                   instructionAndSigners, blockhash, transaction, sent, outcomes, result, res>>

\* the value of the next connection.getLatestBlockhash()
FreshBlockhash == Cardinality({i \in 1..Len(calls) : calls[i] = "getLatestBlockhash"}) + 1

\* Mutant: the create instruction is read but left in ataInstruction.
AfterPeek == ataInstruction

\* Mutant: the popped create instruction is not added to the transaction.
PoppedAndDropped == <<>>

\* if (ataInstruction.length > 0) transaction.add(ataInstruction.pop()!)
PoppedAtaInstruction == IF Len(ataInstruction) > 0 THEN <<ataInstruction[Len(ataInstruction)]>> ELSE <<>>
AfterPop == IF Len(ataInstruction) > 0 THEN SubSeq(ataInstruction, 1, Len(ataInstruction) - 1) ELSE <<>>

----------------------------------------------------------------------------
(* token: collectToken *)

Call_collectToken ==
    /\ pc = "idle"
    /\ \E t \in Targets, srcs \in SourceLists(MaxTokenSources), a \in Amounts,
          pat \in TokenPatterns, dec \in Decimals, pb \in PayerAccounts :
           \E ext \in OutsideAccounts(t, TargetAtaStates) :
               TokenCall("collectToken", t, srcs, Some(a), pat, dec, ext, pb)

collectToken_start ==
    /\ pc = "start" /\ op = "collectToken"
    /\ IF AmountNotPositive(Val(amount))
       THEN /\ Throw("amount must be greater than 0")
            /\ UNCHANGED <<inputs, ledger, locals, history, result, res>>
       ELSE \/ CheckPayer(SignerAndAta(sources), TokenProbeSize)
            \/ RpcThrows("getBalance")

collectToken_probe ==
    /\ pc = "probe" /\ op = "collectToken"
    /\ \/ /\ chunk <= Len(accountGroups)
          /\ Rpc("getMultipleParsedAccounts")
          /\ LET instructions ==
                     getTokenTransferInstructions(accountGroups[chunk], targetAta, Val(amount))
             IN  IF instructions.threw
                 THEN /\ Throw("RangeError: not an integer")
                      /\ UNCHANGED <<instructionAndSigners, chunk>>
                 ELSE /\ instructionAndSigners' =
                             instructionAndSigners \o instructions.instructions
                      /\ chunk' = chunk + 1
                      /\ UNCHANGED <<pc, raised>>
          /\ UNCHANGED <<inputs, ledger, balance, accountGroups, instructionAndSignerGroups,
                         ataInstruction, batch, blockhash, transaction, sent, outcomes,
                         result, res>>
       \/ chunk <= Len(accountGroups) /\ RpcThrows("getMultipleParsedAccounts")
       \/ LookupTarget(TokenGroupSize)
       \/ chunk > Len(accountGroups) /\ RpcThrows("getParsedAccountInfo")

\* const { blockhash } = await connection.getLatestBlockhash(), first in the loop body
collectToken_blockhash ==
    /\ pc = "blockhash" /\ op = "collectToken"
    /\ \/ /\ batch <= Len(instructionAndSignerGroups)
          /\ Rpc("getLatestBlockhash")
          /\ blockhash' = Some(FreshBlockhash)
          /\ pc' = "send"
          /\ UNCHANGED <<inputs, ledger, raised, balance, accountGroups, chunk,
                         instructionAndSigners, instructionAndSignerGroups, ataInstruction,
                         batch, transaction, sent, outcomes, result, res>>
       \/ batch <= Len(instructionAndSignerGroups) /\ RpcThrows("getLatestBlockhash")
       \/ Return

collectToken_send ==
    /\ pc = "send" /\ op = "collectToken"
    /\ LET items == instructionAndSignerGroups[batch]
           tx == [instructions |-> PoppedAtaInstruction \o NonNullInstructions(items),
                  feePayer |-> Some(payer),
                  recentBlockhash |-> blockhash,
                  signers |-> Signers(payer, items)]
       IN  /\ transaction' = Some(tx)
           /\ sent' = Append(sent, [batch |-> batch, transaction |-> tx])
    /\ ataInstruction' = AfterPop
    /\ Rpc("sendAndConfirmTransaction")
    /\ pc' = "confirm"
    /\ UNCHANGED <<inputs, ledger, raised, balance, accountGroups, chunk,
                   instructionAndSigners, instructionAndSignerGroups,
                   batch, blockhash, outcomes, result, res>>

collectToken_confirm ==
    /\ pc = "confirm" /\ op = "collectToken"
    /\ \/ Confirmed("blockhash")
       \/ Caught("blockhash")

----------------------------------------------------------------------------
(* token: collectAllTokenAndCloseAccount *)

Call_collectAllTokenAndCloseAccount ==
    /\ pc = "idle"
    /\ \E t \in Targets, srcs \in SourceLists(MaxTokenSources), pat \in TokenPatterns,
          dec \in Decimals, pb \in PayerAccounts :
           \E ext \in OutsideAccounts(t, TargetAtaStates) :
               TokenCall("collectAllTokenAndCloseAccount", t, srcs, Null, pat, dec, ext, pb)

collectAllTokenAndCloseAccount_start ==
    /\ pc = "start" /\ op = "collectAllTokenAndCloseAccount"
    /\ \/ CheckPayer(SignerAndAta(sources), TokenProbeSize)
       \/ RpcThrows("getBalance")

collectAllTokenAndCloseAccount_probe ==
    /\ pc = "probe" /\ op = "collectAllTokenAndCloseAccount"
    /\ \/ /\ chunk <= Len(accountGroups)
          /\ Rpc("getMultipleParsedAccounts")
          /\ instructionAndSigners' = instructionAndSigners \o
                 getAllTokenTransferInstructions(accountGroups[chunk], targetAta)
          /\ chunk' = chunk + 1
          /\ UNCHANGED <<inputs, ledger, pc, raised, balance, accountGroups,
                         instructionAndSignerGroups, ataInstruction, batch, blockhash,
                         transaction, sent, outcomes, result, res>>
       \/ chunk <= Len(accountGroups) /\ RpcThrows("getMultipleParsedAccounts")
       \/ LookupTarget(CloseGroupSize)
       \/ chunk > Len(accountGroups) /\ RpcThrows("getParsedAccountInfo")

\* the transaction is assembled (create, transfers, closes, feePayer), then
\* const { blockhash } = await connection.getLatestBlockhash()
collectAllTokenAndCloseAccount_blockhash ==
    /\ pc = "blockhash" /\ op = "collectAllTokenAndCloseAccount"
    /\ \/ /\ batch <= Len(instructionAndSignerGroups)
          /\ LET items == instructionAndSignerGroups[batch]
             IN  transaction' =
                     Some([instructions |-> PoppedAtaInstruction
                                            \o NonNullInstructions(items)
                                            \o CloseInstructions(items),
                           feePayer |-> Some(payer),
                           recentBlockhash |-> Null,
                           signers |-> <<>>])
          /\ ataInstruction' = AfterPop
          /\ \/ /\ Rpc("getLatestBlockhash")
                /\ blockhash' = Some(FreshBlockhash)
                /\ pc' = "send"
                /\ UNCHANGED raised
             \/ /\ Rpc("getLatestBlockhash")
                /\ Throw("getLatestBlockhash")
                /\ UNCHANGED blockhash
          /\ UNCHANGED <<inputs, ledger, balance, accountGroups, chunk,
                         instructionAndSigners, instructionAndSignerGroups,
                         batch, sent, outcomes, result, res>>
       \/ Return

collectAllTokenAndCloseAccount_send ==
    /\ pc = "send" /\ op = "collectAllTokenAndCloseAccount"
    /\ LET items == instructionAndSignerGroups[batch]
           tx == [Val(transaction) EXCEPT !.recentBlockhash = blockhash,
                                          !.signers = Signers(payer, items)]
       IN  /\ transaction' = Some(tx)
           /\ sent' = Append(sent, [batch |-> batch, transaction |-> tx])
    /\ Rpc("sendAndConfirmTransaction")
    /\ pc' = "confirm"
    /\ UNCHANGED <<inputs, ledger, raised, balance, accountGroups, chunk,
                   instructionAndSigners, instructionAndSignerGroups, ataInstruction,
                   batch, blockhash, outcomes, result, res>>

collectAllTokenAndCloseAccount_confirm ==
    /\ pc = "confirm" /\ op = "collectAllTokenAndCloseAccount"
    /\ \/ Confirmed("blockhash")
       \/ Caught("blockhash")

----------------------------------------------------------------------------
(* the connection-global module: collect *)

Call_collect ==
    /\ pc = "idle"
    /\ \E srcs \in SourceLists(MaxNativeSources), a \in {Null} \cup {Some(x) : x \in Amounts},
          pat \in NativePatterns, pb \in PayerAccounts :
           NativeCall("collect", 0, srcs, a, pat, pb)

collect_start ==
    /\ pc = "start" /\ op = "collect"
    /\ IF ~IsNull(amount) /\ AmountNotPositive(Val(amount))
       THEN /\ Throw("amount must be greater than 0")
            /\ UNCHANGED <<inputs, ledger, locals, history, result, res>>
       ELSE \/ CheckPayer(sources, SolProbeSize)
            \/ RpcThrows("getBalance")

collect_probe ==
    /\ pc = "probe" /\ op = "collect"
    /\ \/ /\ chunk <= Len(accountGroups)
          /\ Rpc("getMultipleAccountsInfo")
          /\ instructionAndSigners' = instructionAndSigners \o
                 legacy_getTransferInstructions(accountGroups[chunk], payer, amount)
          /\ chunk' = chunk + 1
          /\ UNCHANGED <<inputs, ledger, pc, raised, balance, accountGroups,
                         instructionAndSignerGroups, ataInstruction, batch, blockhash,
                         transaction, sent, outcomes, result, res>>
       \/ chunk <= Len(accountGroups) /\ RpcThrows("getMultipleAccountsInfo")
       \/ BatchNative(SolGroupSize)

collect_send ==
    /\ pc = "send" /\ op = "collect"
    /\ \/ SendNative
       \/ Return

\* no try block: a rejected sendAndConfirmTransaction ends the call;
\* otherwise console.log, console.table, await sleep(config.network.sleep)
collect_confirm ==
    /\ pc = "confirm" /\ op = "collect"
    /\ \/ Confirmed("send")
       \/ /\ Throw("sendAndConfirmTransaction")
          /\ UNCHANGED <<inputs, ledger, locals, history, result, res>>

----------------------------------------------------------------------------
(* sol: allocationSOL *)

\* Mutant: the last account of the group gets no transfer.
AllocationInstructionsButLast(accounts, amt) ==
    [i \in 1..(Len(accounts) - 1) |-> SystemTransfer(payer, accounts[i], ToLamports(amt))]

\* accounts.map(account => SystemProgram.transfer({payer, account, amount * LAMPORTS_PER_SOL}))
AllocationInstructions(accounts, amt) ==
    [i \in 1..Len(accounts) |-> SystemTransfer(payer, accounts[i], ToLamports(amt))]

Call_allocationSOL ==
    /\ pc = "idle"
    /\ \E tgts \in SourceLists(MaxNativeSources), a \in AllocationAmounts,
          pb \in AllocationPayerAccounts :
           /\ op' = "allocationSOL" /\ targets' = tgts /\ amount' = Some(a)
           /\ nativeExt' = pb
    /\ pc' = "start"
    /\ UNCHANGED <<sources, payer, target, data, size, queryAccounts, offCurve,
                   nativePat, tokenPat, tokenExt, decimals, mintInfo, raised, locals,
                   history, result, res>>

\* const balance = await connection.getBalance(payer.publicKey)
\* if (balance == 0 || balance < amount * targets.length * LAMPORTS_PER_SOL) throw ...
\* const accountGroups = group(targets, 20)
allocationSOL_start ==
    /\ pc = "start" /\ op = "allocationSOL"
    /\ \/ /\ Rpc("getBalance")
          /\ balance' = Some(getBalance(payer))
          /\ IF \/ getBalance(payer) = 0
                \/ getBalance(payer) < ToLamports(Val(amount) * Len(targets))
             THEN /\ Throw("payer balance is not enough")
                  /\ UNCHANGED <<accountGroups, batch>>
             ELSE /\ accountGroups' = group(targets, AllocationGroupSize)
                  /\ batch' = 1
                  /\ pc' = "send"
                  /\ UNCHANGED raised
          /\ UNCHANGED <<inputs, ledger, chunk, instructionAndSigners,
                         instructionAndSignerGroups, ataInstruction, blockhash,
                         transaction, sent, outcomes, result, res>>
       \/ RpcThrows("getBalance")

\* one transaction per group of targets, signed by the payer alone
allocationSOL_send ==
    /\ pc = "send" /\ op = "allocationSOL"
    /\ \/ /\ batch <= Len(accountGroups)
          /\ LET tx == [instructions |-> AllocationInstructions(accountGroups[batch],
                                                                Val(amount)),
                        feePayer |-> Null,
                        recentBlockhash |-> Null,
                        signers |-> <<payer>>]
             IN  /\ transaction' = Some(tx)
                 /\ sent' = Append(sent, [batch |-> batch, transaction |-> tx])
          /\ Rpc("sendAndConfirmTransaction")
          /\ pc' = "confirm"
          /\ UNCHANGED <<inputs, ledger, raised, balance, accountGroups, chunk,
                         instructionAndSigners, instructionAndSignerGroups, ataInstruction,
                         batch, blockhash, outcomes, result, res>>
       \/ /\ batch > Len(accountGroups)
          /\ pc' = "done"
          /\ UNCHANGED <<inputs, ledger, raised, locals, history, result, res>>

\* resolved: console.log(tx); console.log(`send ... to ... accounts`)
\* rejected: catch (error) { console.warn(`Maybe [payer] send [amount] SOL to [accounts] failed`) }
allocationSOL_confirm ==
    /\ pc = "confirm" /\ op = "allocationSOL"
    /\ \E kind \in {"log", "warn"} :
           outcomes' = Append(outcomes, [batch |-> batch, kind |-> kind,
                                         addresses |-> accountGroups[batch]])
    /\ batch' = batch + 1
    /\ transaction' = Null
    /\ pc' = "send"
    /\ UNCHANGED <<inputs, ledger, raised, balance, accountGroups, chunk,
                   instructionAndSigners, instructionAndSignerGroups, ataInstruction,
                   blockhash, sent, calls, result, res>>

----------------------------------------------------------------------------
(* token: getMintInfo, getMultipleAtaInfo, batchMintTo *)

\* accountInfos[i] != null for the sub-account ata
AtaExists(ata) == ~IsNull(TokenAccount(-ata - 1))

\* targets.map(item => ({ ata: getAssociatedTokenAddressSync(mint, item, true, programId),
\*                        target: item }))
TargetAndAta(tgts) ==
    [i \in 1..Len(tgts) |-> [ata |-> getAssociatedTokenAddressSync(tgts[i]), target |-> tgts[i]]]

\* res.push({ ...tokenAccounts[i], exists: accountInfos[i] != null })
AtaInfoRecords(tokenAccounts) ==
    [i \in 1..Len(tokenAccounts) |->
        [ata |-> tokenAccounts[i].ata, target |-> tokenAccounts[i].target,
         exists |-> AtaExists(tokenAccounts[i].ata)]]

\* for (const account of accountGroup) { if (!account.exists) add(create...); add(mintTo...) },
\* the amount being BigInt(10 ** decimals) * BigInt(amount), amt an integral number
RECURSIVE MintInstructions(_, _)
MintInstructions(accountGroup, amt) ==
    IF accountGroup = <<>> THEN <<>>
    ELSE LET account == Head(accountGroup)
         IN  (IF ~account.exists
              THEN <<createAssociatedTokenAccountInstruction(payer, account.ata,
                                                             account.target)>>
              ELSE <<>>)
             \o <<createMintToInstruction(account.ata, payer, Pow10(decimals) * BigInt(amt))>>
             \o MintInstructions(Tail(accountGroup), amt)

Call_batchMintTo ==
    /\ pc = "idle"
    /\ \E tgts \in SourceLists(MaxMintTargets), a \in MintAmounts, pat \in ExistencePatterns,
          dec \in Decimals, mi \in MintStates :
           /\ op' = "batchMintTo" /\ targets' = tgts /\ amount' = Some(a)
           /\ tokenPat' = pat /\ decimals' = dec /\ mintInfo' = mi
    /\ pc' = "start"
    /\ UNCHANGED <<sources, payer, target, data, size, queryAccounts, offCurve,
                   nativePat, nativeExt, tokenExt, raised, locals, history, result, res>>

\* getMintInfo and the mint authority check, then the first lines of getMultipleAtaInfo
batchMintTo_start ==
    /\ pc = "start" /\ op = "batchMintTo"
    /\ \/ /\ Rpc("getAccountInfo")
          /\ IF mintInfo = "none" THEN
                 /\ Throw("Invalid mint address") /\ UNCHANGED <<accountGroups, chunk, res>>
             ELSE IF mintInfo = "token2022" THEN
                 /\ Throw("Unsupported token 2022") /\ UNCHANGED <<accountGroups, chunk, res>>
             ELSE IF mintInfo = "otherProgram" THEN
                 /\ Throw("Invalid mint owner") /\ UNCHANGED <<accountGroups, chunk, res>>
             ELSE IF mintInfo # "authorityPayer" THEN
                 /\ Throw("Invalid mint authority") /\ UNCHANGED <<accountGroups, chunk, res>>
             ELSE
                 /\ accountGroups' = group(TargetAndAta(targets), AtaInfoGroupSize)
                 /\ chunk' = 1
                 /\ res' = <<>>
                 /\ pc' = "probe"
                 /\ UNCHANGED raised
          /\ UNCHANGED <<inputs, ledger, balance, instructionAndSigners,
                         instructionAndSignerGroups, ataInstruction, batch, blockhash,
                         transaction, sent, outcomes, result>>
       \/ RpcThrows("getAccountInfo")

\* the loop of getMultipleAtaInfo; when it is exhausted, back in batchMintTo:
\* const accountGroups = group(accounts, 5)
batchMintTo_probe ==
    /\ pc = "probe" /\ op = "batchMintTo"
    /\ \/ /\ chunk <= Len(accountGroups)
          /\ Rpc("getMultipleAccountsInfo")
          /\ res' = res \o AtaInfoRecords(accountGroups[chunk])
          /\ chunk' = chunk + 1
          /\ UNCHANGED <<inputs, ledger, pc, raised, balance, accountGroups,
                         instructionAndSigners, instructionAndSignerGroups, ataInstruction,
                         batch, blockhash, transaction, sent, outcomes, result>>
       \/ chunk <= Len(accountGroups) /\ RpcThrows("getMultipleAccountsInfo")
       \/ /\ chunk > Len(accountGroups)
          /\ accountGroups' = group(res, MintGroupSize)
          /\ batch' = 1
          /\ pc' = "send"
          /\ UNCHANGED <<inputs, ledger, raised, balance, chunk, instructionAndSigners,
                         instructionAndSignerGroups, ataInstruction, blockhash,
                         transaction, history, result, res>>

\* the transaction of one group is built (BigInt(amount) raises a RangeError on a
\* number that is not integral, outside the try block) and submitted
batchMintTo_send ==
    /\ pc = "send" /\ op = "batchMintTo"
    /\ \/ /\ batch <= Len(accountGroups)
          /\ IF ~IsInteger(Val(amount))
             THEN /\ Throw("RangeError: not an integer")
                  /\ UNCHANGED <<transaction, sent, calls>>
             ELSE /\ LET tx == [instructions |-> MintInstructions(accountGroups[batch],
                                                                  Val(amount)),
                                feePayer |-> Null,
                                recentBlockhash |-> Null,
                                signers |-> <<payer>>]
                     IN  /\ transaction' = Some(tx)
                         /\ sent' = Append(sent, [batch |-> batch, transaction |-> tx])
                  /\ Rpc("sendAndConfirmTransaction")
                  /\ pc' = "confirm"
                  /\ UNCHANGED raised
          /\ UNCHANGED <<inputs, ledger, balance, accountGroups, chunk,
                         instructionAndSigners, instructionAndSignerGroups, ataInstruction,
                         batch, blockhash, outcomes, result, res>>
       \/ /\ batch > Len(accountGroups)
          /\ pc' = "done"
          /\ UNCHANGED <<inputs, ledger, raised, locals, history, result, res>>

\* resolved: console.log(`Batch mint to ... successfully, tx ...`)
\* rejected: catch (error) { console.warn(`Maybe batch mint to ... failed`) }
batchMintTo_confirm ==
    /\ pc = "confirm" /\ op = "batchMintTo"
    /\ \E kind \in {"log", "warn"} :
           outcomes' = Append(outcomes,
                              [batch |-> batch, kind |-> kind,
                               addresses |-> [i \in 1..Len(accountGroups[batch]) |->
                                                  accountGroups[batch][i].target]])
    /\ batch' = batch + 1
    /\ transaction' = Null
    /\ pc' = "send"
    /\ UNCHANGED <<inputs, ledger, raised, balance, accountGroups, chunk,
                   instructionAndSigners, instructionAndSignerGroups, ataInstruction,
                   blockhash, sent, calls, result, res>>

----------------------------------------------------------------------------
(* sol: queryMultipleBalance *)

\* `${balance} SOL` with balance = lamports / LAMPORTS_PER_SOL: the decimal numeral,
\* held as its whole part and its nine fractional digits
FormatSol(lamports) ==
    [whole |-> lamports \div LAMPORTS_PER_SOL, nanos |-> lamports % LAMPORTS_PER_SOL,
     unit |-> "SOL"]

\* Mutant: an address without an account is left out of the result.
RECURSIVE BalanceRecordsOmitNull(_, _, _)
BalanceRecordsOmitNull(accounts, balances, i) ==
    IF i > Len(balances) THEN <<>>
    ELSE (IF IsNull(balances[i]) THEN <<>>
          ELSE <<[address |-> accounts[i], balance |-> FormatSol(Val(balances[i]))]>>)
         \o BalanceRecordsOmitNull(accounts, balances, i + 1)

\* for (let i = 0; i < balances.length; i++) { ... res.push({ address, balance }) }
RECURSIVE BalanceRecords(_, _, _)
BalanceRecords(accounts, balances, i) ==
    IF i > Len(balances) THEN <<>>
    ELSE LET item == balances[i]
             bal == IF IsNull(item) THEN FormatSol(0) ELSE FormatSol(Val(item))
         IN  <<[address |-> accounts[i], balance |-> bal]>>
             \o BalanceRecords(accounts, balances, i + 1)

Call_queryMultipleBalance ==
    /\ pc = "idle"
    /\ \E accts \in SourceLists(MaxQueryAccounts), pat \in NativePatterns :
           /\ op' = "queryMultipleBalance" /\ queryAccounts' = accts /\ nativePat' = pat
    /\ pc' = "start"
    /\ UNCHANGED <<sources, amount, payer, target, data, size, targets, offCurve,
                   nativeExt, tokenPat, tokenExt, decimals, mintInfo, raised, locals,
                   history, result, res>>

\* const accountGroups = group(accounts, 50); const res = []
queryMultipleBalance_start ==
    /\ pc = "start" /\ op = "queryMultipleBalance"
    /\ accountGroups' = group(queryAccounts, QueryGroupSize)
    /\ chunk' = 1
    /\ res' = <<>>
    /\ pc' = "probe"
    /\ UNCHANGED <<inputs, ledger, raised, balance, instructionAndSigners,
                   instructionAndSignerGroups, ataInstruction, batch, blockhash,
                   transaction, history, result>>

\* the loop is exhausted: console.table(res); return res
QueryReturn ==
    /\ chunk > Len(accountGroups)
    /\ result' = Some(res)
    /\ pc' = "done"
    /\ UNCHANGED <<inputs, ledger, raised, locals, history, res>>

queryMultipleBalance_probe ==
    /\ pc = "probe" /\ op = "queryMultipleBalance"
    /\ \/ /\ chunk <= Len(accountGroups)
          /\ Rpc("getMultipleAccountsInfo")
          /\ LET accounts == accountGroups[chunk]
             IN  res' = res \o BalanceRecords(accounts, getMultipleAccountsInfo(accounts), 1)
          /\ chunk' = chunk + 1
          /\ UNCHANGED <<inputs, ledger, pc, raised, balance, accountGroups,
                         instructionAndSigners, instructionAndSignerGroups, ataInstruction,
                         batch, blockhash, transaction, sent, outcomes, result>>
       \/ chunk <= Len(accountGroups) /\ RpcThrows("getMultipleAccountsInfo")
       \/ QueryReturn

----------------------------------------------------------------------------
(* token and the connection-global module: queryMultipleTokenBalance (the same text) *)

TokenQueryOps == {"queryMultipleTokenBalance", "legacy_queryMultipleTokenBalance"}

\* for (let i = 0; i < balances.value.length; i++) { ... accounts[i] ... res.push(...) }
\* accounts is the parameter of the function (all the owners), balances the answer
\* for one chunk of sub-accounts
RECURSIVE TokenBalanceRecords(_, _, _, _)
TokenBalanceRecords(accounts, tokenAccounts, balances, i) ==
    IF i > Len(balances) THEN <<>>
    ELSE LET item == balances[i]
         IN  <<[address |-> accounts[i],
                balance |-> IF IsNull(item) THEN 0 ELSE Val(item).uiAmount,
                lamports |-> IF IsNull(item) THEN 0 ELSE SubAccountLamports(tokenAccounts[i])]>>
             \o TokenBalanceRecords(accounts, tokenAccounts, balances, i + 1)

Call_queryMultipleTokenBalance ==
    /\ pc = "idle"
    /\ \E name \in TokenQueryOps, accts \in SourceLists(MaxQueryAccounts),
          pat \in TokenPatterns, dec \in Decimals, rent \in RentPatterns,
          off \in OffCurveSets :
           /\ op' = name /\ queryAccounts' = accts /\ tokenPat' = pat /\ decimals' = dec
           /\ nativePat' = rent /\ offCurve' = off
    /\ pc' = "start"
    /\ UNCHANGED <<sources, amount, payer, target, data, size, targets,
                   nativeExt, tokenExt, mintInfo, raised, locals, history, result, res>>

\* const accountGroups = group(accounts.map(item => getAssociatedTokenAddressSync(mint, item)), 50)
\* getAssociatedTokenAddressSync throws TokenOwnerOffCurveError for an owner off the curve
queryMultipleTokenBalance_start ==
    /\ pc = "start" /\ op \in TokenQueryOps
    /\ IF \E i \in 1..Len(queryAccounts) : queryAccounts[i] \in offCurve
       THEN /\ Throw("TokenOwnerOffCurveError")
            /\ UNCHANGED <<inputs, ledger, locals, history, result, res>>
       ELSE /\ accountGroups' =
                   group([i \in 1..Len(queryAccounts) |->
                              getAssociatedTokenAddressSync(queryAccounts[i])],
                         QueryGroupSize)
            /\ chunk' = 1
            /\ res' = <<>>
            /\ pc' = "probe"
            /\ UNCHANGED <<inputs, ledger, raised, balance, instructionAndSigners,
                           instructionAndSignerGroups, ataInstruction, batch, blockhash,
                           transaction, history, result>>

queryMultipleTokenBalance_probe ==
    /\ pc = "probe" /\ op \in TokenQueryOps
    /\ \/ /\ chunk <= Len(accountGroups)
          /\ Rpc("getMultipleParsedAccounts")
          /\ LET tokenAccounts == accountGroups[chunk]
             IN  res' = res \o TokenBalanceRecords(queryAccounts, tokenAccounts,
                                                   getMultipleParsedAccounts(tokenAccounts), 1)
          /\ chunk' = chunk + 1
          /\ UNCHANGED <<inputs, ledger, pc, raised, balance, accountGroups,
                         instructionAndSigners, instructionAndSignerGroups, ataInstruction,
                         batch, blockhash, transaction, sent, outcomes, result>>
       \/ chunk <= Len(accountGroups) /\ RpcThrows("getMultipleParsedAccounts")
       \/ QueryReturn

----------------------------------------------------------------------------
(* the connection-global module: getTokenTransferInstructions, collectToken *)

\* amt is nullable (amount: number | undefined); the result is the instructions, or
\* threw = TRUE when createTransferInstruction was handed a number that is not integral
RECURSIVE legacy_getTokenTransferInstructionsLoop(_, _, _, _, _, _)
legacy_getTokenTransferInstructionsLoop(balances, accounts, toAta, amt, closeAta, i) ==
    IF i > Len(balances) THEN [threw |-> FALSE, instructions |-> <<>>]
    ELSE LET item == balances[i]
             rest == legacy_getTokenTransferInstructionsLoop(balances, accounts, toAta,
                                                             amt, closeAta, i + 1)
         IN  IF IsNull(item) THEN rest
             \* uiAmount < data.parsed.info.tokenAmount.amount
             ELSE IF ~IsNull(amt) /\ Val(item).uiAmount < Val(item).amount * MilliPerUnit
                  THEN rest
             ELSE LET realAmount == IF IsNull(amt) THEN Val(item).amount * MilliPerUnit
                                    ELSE Val(amt) * Pow10(Val(item).decimals)
                      signer == accounts[i].signer
                      transfers == Val(item).amount > 0
                      transferInstruction ==
                          IF transfers
                          THEN Some(createTransferInstruction(accounts[i].ata, toAta,
                                                              signer, BigInt(realAmount)))
                          ELSE Null
                      closeInstruction ==
                          IF closeAta
                          THEN Some(createCloseAccountInstruction(accounts[i].ata, signer,
                                                                  signer))
                          ELSE Null
                  IN  IF transfers /\ ~IsInteger(realAmount)
                      THEN [threw |-> TRUE, instructions |-> <<>>]
                      ELSE IF rest.threw THEN rest
                      ELSE IF IsNull(transferInstruction) /\ IsNull(closeInstruction) THEN rest
                      ELSE [threw |-> FALSE,
                            instructions |->
                                <<[instruction |-> transferInstruction,
                                   signers |-> signer,
                                   amount |-> realAmount \div Pow10(Val(item).decimals),
                                   closeInstruction |-> closeInstruction]>>
                                \o rest.instructions]

legacy_getTokenTransferInstructions(accounts, toAta, amt, closeAta) ==
    legacy_getTokenTransferInstructionsLoop(getMultipleParsedAccounts(Atas(accounts)),
                                            accounts, toAta, amt, closeAta, 1)

\* const closeAta = amount == undefined
closeAta == IsNull(amount)

Call_legacy_collectToken ==
    /\ pc = "idle"
    /\ \E srcs \in SourceLists(MaxTokenSources), a \in {Null} \cup {Some(x) : x \in Amounts},
          pat \in TokenPatterns, dec \in Decimals, ext \in TargetAtaStates,
          pb \in PayerAccounts :
           TokenCall("legacy_collectToken", 0, srcs, a, pat, dec, ext, pb)

legacy_collectToken_start ==
    /\ pc = "start" /\ op = "legacy_collectToken"
    /\ IF ~IsNull(amount) /\ AmountNotPositive(Val(amount))
       THEN /\ Throw("amount must be greater than 0")
            /\ UNCHANGED <<inputs, ledger, locals, history, result, res>>
       ELSE \/ CheckPayer(SignerAndAta(sources), TokenProbeSize)
            \/ RpcThrows("getBalance")

legacy_collectToken_probe ==
    /\ pc = "probe" /\ op = "legacy_collectToken"
    /\ \/ /\ chunk <= Len(accountGroups)
          /\ Rpc("getMultipleParsedAccounts")
          /\ LET instructions ==
                     legacy_getTokenTransferInstructions(accountGroups[chunk], targetAta,
                                                         amount, closeAta)
             IN  IF instructions.threw
                 THEN /\ Throw("RangeError: not an integer")
                      /\ UNCHANGED <<instructionAndSigners, chunk>>
                 ELSE /\ instructionAndSigners' =
                             instructionAndSigners \o instructions.instructions
                      /\ chunk' = chunk + 1
                      /\ UNCHANGED <<pc, raised>>
          /\ UNCHANGED <<inputs, ledger, balance, accountGroups, instructionAndSignerGroups,
                         ataInstruction, batch, blockhash, transaction, sent, outcomes,
                         result, res>>
       \/ chunk <= Len(accountGroups) /\ RpcThrows("getMultipleParsedAccounts")
       \/ LookupTarget(IF closeAta THEN CloseGroupSize ELSE TokenGroupSize)
       \/ chunk > Len(accountGroups) /\ RpcThrows("getParsedAccountInfo")

\* the transaction is assembled (create, transfers, closes if closeAta, feePayer), then
\* const { blockhash } = await connection.getLatestBlockhash()
legacy_collectToken_blockhash ==
    /\ pc = "blockhash" /\ op = "legacy_collectToken"
    /\ \/ /\ batch <= Len(instructionAndSignerGroups)
          /\ LET items == instructionAndSignerGroups[batch]
             IN  transaction' =
                     Some([instructions |-> PoppedAtaInstruction
                                            \o NonNullInstructions(items)
                                            \o (IF closeAta THEN CloseInstructions(items)
                                                ELSE <<>>),
                           feePayer |-> Some(payer),
                           recentBlockhash |-> Null,
                           signers |-> <<>>])
          /\ ataInstruction' = AfterPop
          /\ \/ /\ Rpc("getLatestBlockhash")
                /\ blockhash' = Some(FreshBlockhash)
                /\ pc' = "send"
                /\ UNCHANGED raised
             \/ /\ Rpc("getLatestBlockhash")
                /\ Throw("getLatestBlockhash")
                /\ UNCHANGED blockhash
          /\ UNCHANGED <<inputs, ledger, balance, accountGroups, chunk,
                         instructionAndSigners, instructionAndSignerGroups,
                         batch, sent, outcomes, result, res>>
       \/ Return

legacy_collectToken_send ==
    /\ pc = "send" /\ op = "legacy_collectToken"
    /\ LET items == instructionAndSignerGroups[batch]
           tx == [Val(transaction) EXCEPT !.recentBlockhash = blockhash,
                                          !.signers = Signers(payer, items)]
       IN  /\ transaction' = Some(tx)
           /\ sent' = Append(sent, [batch |-> batch, transaction |-> tx])
    /\ Rpc("sendAndConfirmTransaction")
    /\ pc' = "confirm"
    /\ UNCHANGED <<inputs, ledger, raised, balance, accountGroups, chunk,
                   instructionAndSigners, instructionAndSignerGroups, ataInstruction,
                   batch, blockhash, outcomes, result, res>>

\* no try block: a rejected sendAndConfirmTransaction ends the call;
\* otherwise console.log, console.table, await sleep(config.network.sleep)
legacy_collectToken_confirm ==
    /\ pc = "confirm" /\ op = "legacy_collectToken"
    /\ \/ Confirmed("blockhash")
       \/ /\ Throw("sendAndConfirmTransaction")
          /\ UNCHANGED <<inputs, ledger, locals, history, result, res>>

----------------------------------------------------------------------------
(* the connection-global module: allocation *)

Call_allocation ==
    /\ pc = "idle"
    /\ \E tgts \in SourceLists(MaxNativeSources), a \in AllocationAmounts,
          pb \in AllocationPayerAccounts :
           /\ op' = "allocation" /\ targets' = tgts /\ amount' = Some(a)
           /\ nativeExt' = pb
    /\ pc' = "start"
    /\ UNCHANGED <<sources, payer, target, data, size, queryAccounts, offCurve,
                   nativePat, tokenPat, tokenExt, decimals, mintInfo, raised, locals,
                   history, result, res>>

allocation_start ==
    /\ pc = "start" /\ op = "allocation"
    /\ \/ /\ Rpc("getBalance")
          /\ balance' = Some(getBalance(payer))
          /\ IF \/ getBalance(payer) = 0
                \/ getBalance(payer) < ToLamports(Val(amount) * Len(targets))
             THEN /\ Throw("payer balance is not enough")
                  /\ UNCHANGED <<accountGroups, batch>>
             ELSE /\ accountGroups' = group(targets, AllocationGroupSize)
                  /\ batch' = 1
                  /\ pc' = "send"
                  /\ UNCHANGED raised
          /\ UNCHANGED <<inputs, ledger, chunk, instructionAndSigners,
                         instructionAndSignerGroups, ataInstruction, blockhash,
                         transaction, sent, outcomes, result, res>>
       \/ RpcThrows("getBalance")

allocation_send ==
    /\ pc = "send" /\ op = "allocation"
    /\ \/ /\ batch <= Len(accountGroups)
          /\ LET tx == [instructions |-> AllocationInstructions(accountGroups[batch],
                                                                Val(amount)),
                        feePayer |-> Null,
                        recentBlockhash |-> Null,
                        signers |-> <<payer>>]
             IN  /\ transaction' = Some(tx)
                 /\ sent' = Append(sent, [batch |-> batch, transaction |-> tx])
          /\ Rpc("sendAndConfirmTransaction")
          /\ pc' = "confirm"
          /\ UNCHANGED <<inputs, ledger, raised, balance, accountGroups, chunk,
                         instructionAndSigners, instructionAndSignerGroups, ataInstruction,
                         batch, blockhash, outcomes, result, res>>
       \/ /\ batch > Len(accountGroups)
          /\ pc' = "done"
          /\ UNCHANGED <<inputs, ledger, raised, locals, history, result, res>>

\* no try block: a rejected sendAndConfirmTransaction ends the call;
\* otherwise console.log(tx); console.log(`send ...`); await sleep(config.network.sleep)
allocation_confirm ==
    /\ pc = "confirm" /\ op = "allocation"
    /\ \/ /\ outcomes' = Append(outcomes, [batch |-> batch, kind |-> "log",
                                           addresses |-> accountGroups[batch]])
          /\ batch' = batch + 1
          /\ transaction' = Null
          /\ pc' = "send"
          /\ UNCHANGED <<inputs, ledger, raised, balance, accountGroups, chunk,
                         instructionAndSigners, instructionAndSignerGroups, ataInstruction,
                         blockhash, sent, calls, result, res>>
       \/ /\ Throw("sendAndConfirmTransaction")
          /\ UNCHANGED <<inputs, ledger, locals, history, result, res>>

----------------------------------------------------------------------------

Next ==
    \/ Call_group \/ group_iterate \/ group_return
    \/ Call_allocationSOL \/ allocationSOL_start \/ allocationSOL_send \/ allocationSOL_confirm
    \/ Call_batchMintTo \/ batchMintTo_start \/ batchMintTo_probe
    \/ batchMintTo_send \/ batchMintTo_confirm
    \/ Call_queryMultipleBalance \/ queryMultipleBalance_start \/ queryMultipleBalance_probe
    \/ Call_queryMultipleTokenBalance \/ queryMultipleTokenBalance_start
    \/ queryMultipleTokenBalance_probe
    \/ Call_collectSOL \/ collectSOL_start \/ collectSOL_probe
    \/ collectSOL_send \/ collectSOL_confirm
    \/ Call_collectAllSOL \/ collectAllSOL_start \/ collectAllSOL_probe
    \/ collectAllSOL_send \/ collectAllSOL_confirm
    \/ Call_collectToken \/ collectToken_start \/ collectToken_probe
    \/ collectToken_blockhash \/ collectToken_send \/ collectToken_confirm
    \/ Call_collectAllTokenAndCloseAccount \/ collectAllTokenAndCloseAccount_start
    \/ collectAllTokenAndCloseAccount_probe \/ collectAllTokenAndCloseAccount_blockhash
    \/ collectAllTokenAndCloseAccount_send \/ collectAllTokenAndCloseAccount_confirm
    \/ Call_collect \/ collect_start \/ collect_probe \/ collect_send \/ collect_confirm
    \/ Call_legacy_collectToken \/ legacy_collectToken_start \/ legacy_collectToken_probe
    \/ legacy_collectToken_blockhash \/ legacy_collectToken_send
    \/ legacy_collectToken_confirm
    \/ Call_allocation \/ allocation_start \/ allocation_send \/ allocation_confirm

Spec == Init /\ [][Next]_vars

----------------------------------------------------------------------------
(* Vocabulary of the properties *)

NewCollectOps == {"collectSOL", "collectAllSOL", "collectToken", "collectAllTokenAndCloseAccount"}
TokenCollectOps == {"collectToken", "collectAllTokenAndCloseAccount"}
CollectOps == NewCollectOps \cup {"collect"}

\* the batches have been computed (and, for tokens, the destination looked up)
Batched == pc \in {"blockhash", "send", "confirm", "done"}

NumBatches == Len(instructionAndSignerGroups)

Kinds(k) == [i \in 1..Len(outcomes) |-> outcomes[i].kind][k]

CreatesIn(tx) == {j \in 1..Len(tx.instructions) : tx.instructions[j].kind = "createAta"}

SentWithCreate == {k \in 1..Len(sent) : CreatesIn(sent[k].transaction) # {}}

TargetAtaAbsent == IsNull(TokenAccount(target))

\* the k-th submitted transaction is the one assembled from batch k
SentIsBatch(k) ==
    /\ sent[k].batch = k
    /\ sent[k].transaction.signers = Signers(payer, instructionAndSignerGroups[k])

----------------------------------------------------------------------------
(* C1: in collectSOL, collectAllSOL, collectToken and                      *)
(* collectAllTokenAndCloseAccount a batch whose submission or confirmation *)
(* throws never ends the call: the error does not escape, the batches are  *)
(* submitted in order, and a call that returns has submitted all N batches *)
(* whatever subset of them failed.                                         *)
C1_FailedBatchDoesNotAbort ==
    op \in NewCollectOps =>
        /\ raised # "sendAndConfirmTransaction"
        /\ \A k \in 1..Len(sent) : SentIsBatch(k)
        /\ \A k \in 1..Len(outcomes) :
               outcomes[k].kind = "warn" /\ k < NumBatches /\ pc = "done" => Len(sent) > k
        /\ pc = "done" => Len(sent) = NumBatches /\ Len(outcomes) = NumBatches

\* batch 2 of 3 failed, batches 1 and 3 were submitted and the call returned
C1_Witness ==
    /\ op \in NewCollectOps /\ pc = "done"
    /\ NumBatches = 3 /\ Len(sent) = 3
    /\ Kinds(1) = "table" /\ Kinds(2) = "warn" /\ Kinds(3) = "table"

----------------------------------------------------------------------------
(* C2: in collectToken and collectAllTokenAndCloseAccount the              *)
(* create-destination-sub-account instruction is in at most one submitted  *)
(* transaction, that transaction is the first one submitted, and it is     *)
(* there only when the destination sub-account was found absent, whatever  *)
(* batches fail.                                                           *)
C2_CreateOnlyInFirstTransaction ==
    op \in TokenCollectOps =>
        /\ \A k \in SentWithCreate :
               /\ k = 1
               /\ Cardinality(CreatesIn(sent[k].transaction)) = 1
               /\ TargetAtaAbsent
        /\ Cardinality(SentWithCreate) <= 1
        /\ Len(ataInstruction) <= 1
        /\ ataInstruction # <<>> => TargetAtaAbsent /\ sent = <<>>

\* the first batch carried the create instruction and failed; the second did not carry it
C2_Witness ==
    /\ op \in TokenCollectOps
    /\ Len(sent) >= 2 /\ Len(outcomes) >= 1 /\ Kinds(1) = "warn"
    /\ SentWithCreate = {1}

----------------------------------------------------------------------------
(* C3 as stated: whenever the destination sub-account was absent at probe *)
(* time, a completed run has placed the create instruction in exactly one  *)
(* submitted transaction, also when no source qualifies for the plan.      *)
C3_Original ==
    op \in TokenCollectOps /\ pc = "done" /\ TargetAtaAbsent
        => Cardinality(SentWithCreate) = 1

(* C3 amended: whenever the destination sub-account was absent at probe    *)
(* time and at least one source qualifies for the plan, a completed run    *)
(* has placed the create instruction in exactly one submitted transaction; *)
(* a run whose plan is empty submits nothing, so places it in none.        *)
C3_CreateExactlyOnceWhenPlanNonEmpty ==
    op \in TokenCollectOps /\ pc = "done" /\ TargetAtaAbsent
        => /\ instructionAndSigners # <<>> => Cardinality(SentWithCreate) = 1
           /\ instructionAndSigners = <<>> => sent = <<>>

C3_Witness ==
    /\ op \in TokenCollectOps /\ pc = "done" /\ TargetAtaAbsent
    /\ instructionAndSigners # <<>>
    /\ Cardinality(SentWithCreate) = 1
    /\ Len(sent) >= 2

----------------------------------------------------------------------------
(* C4: when the fee payer's native balance is below the reserve of 0.001   *)
(* native units, every collect operation (collectSOL, collectAllSOL,       *)
(* collectToken, collectAllTokenAndCloseAccount and the older collect)     *)
(* ends in a fatal error, and the only RPC call the run ever issues is the *)
(* balance lookup: no account probe, no submission.                        *)
C4_LowPayerBalanceIsFatal ==
    op \in CollectOps /\ getBalance(payer) < LAMPORTS_PER_SOL \div MilliPerUnit =>
        /\ pc \in {"start", "error"}
        /\ \A i \in 1..Len(calls) : calls[i] = "getBalance"
        /\ Len(calls) <= 1
        /\ sent = <<>> /\ instructionAndSigners = <<>>
        /\ Len(calls) = 1 /\ ~IsNull(balance) => raised = "payer balance is not enough"

\* the older collect run on a payer holding less than the reserve
C4_Witness ==
    /\ op = "collect" /\ pc = "error"
    /\ ~IsNull(balance) /\ Val(balance) * MilliPerUnit < LAMPORTS_PER_SOL
    /\ raised = "payer balance is not enough"
    /\ calls = <<"getBalance">>

----------------------------------------------------------------------------
(* C5: collectSOL and collectToken called with amount <= 0 raise           *)
(* 'amount must be greater than 0' before any network call is issued.      *)
C5_NonPositiveAmountIsFatalBeforeAnyCall ==
    op \in {"collectSOL", "collectToken"} /\ Val(amount) <= 0 =>
        /\ calls = <<>>
        /\ pc \in {"start", "error"}
        /\ pc = "error" => raised = "amount must be greater than 0"

C5_Witness ==
    /\ op = "collectToken" /\ amount = Some(0)
    /\ pc = "error" /\ raised = "amount must be greater than 0" /\ calls = <<>>

----------------------------------------------------------------------------
(* C6: within one call the batches are submitted one at a time in the      *)
(* batcher's output order: the k-th submission is batch k (so no batch is  *)
(* submitted twice), a submission is outstanding only while the call       *)
(* awaits it, and batch k+1 is submitted only when the outcome of batch k  *)
(* (confirmation or caught error) has been recorded; a call that returns   *)
(* has submitted every batch exactly once.                                 *)
C6_BatchesSubmittedOneAtATimeInOrder ==
    op \in CollectOps =>
        /\ \A k \in 1..Len(sent) : SentIsBatch(k)
        /\ \A k \in 1..Len(outcomes) : outcomes[k].batch = k
        /\ Len(sent) <= NumBatches
        /\ pc = "confirm" => Len(sent) = Len(outcomes) + 1 /\ batch = Len(sent)
        /\ pc \in {"blockhash", "send", "done"} => Len(sent) = Len(outcomes)
        /\ pc \in {"blockhash", "send"} => batch = Len(sent) + 1
        /\ pc = "done" => Len(sent) = NumBatches

\* three batches submitted, the first of which failed
C6_Witness ==
    /\ op \in CollectOps /\ pc = "done"
    /\ Len(sent) = 3 /\ Kinds(1) = "warn"
    /\ \A k \in 1..3 : sent[k].batch = k

----------------------------------------------------------------------------
(* C7: for every sequence and every size >= 1, the chunks of               *)
(* group(data, size) concatenated in order give data, every chunk but the  *)
(* last has exactly size elements, the last chunk is non-empty and has at  *)
(* most size elements, and the empty sequence gives no chunk.              *)
C7_GroupPartitionsInOrder ==
    op = "group" /\ pc = "done" =>
        LET r == Val(result) IN
        /\ Flatten(r) = data
        /\ \A i \in 1..Len(r) - 1 : Len(r[i]) = size
        /\ r # <<>> => Len(r[Len(r)]) >= 1 /\ Len(r[Len(r)]) <= size
        /\ data = <<>> => r = <<>>

\* a last chunk shorter than the others
C7_Witness ==
    /\ op = "group" /\ pc = "done"
    /\ Len(Val(result)) = 2 /\ Len(Val(result)[1]) = 3 /\ Len(Val(result)[2]) = 1

----------------------------------------------------------------------------
(* More vocabulary: the plan against the ledger *)

PlanSigners == [i \in 1..Len(instructionAndSigners) |-> instructionAndSigners[i].signers]

BatchSigners(k) ==
    {instructionAndSignerGroups[k][i].signers : i \in 1..Len(instructionAndSignerGroups[k])}

HasTokenAccount(w) == ~IsNull(TokenAccount(w))

EmptyTokenAccount(w) == TokenAccount(w) = Some(0)

\* balance >= amount under Fixed(amount), in exact arithmetic
QualifiesNative(w) ==
    /\ ~IsNull(NativeAccount(w))
    /\ Val(NativeAccount(w)) >= Val(amount) * (LAMPORTS_PER_SOL \div MilliPerUnit)

QualifiesToken(w) ==
    /\ HasTokenAccount(w)
    /\ Val(TokenAccount(w)) * MilliPerUnit >= Val(amount) * Pow10(decimals)

InstructionsOfKind(tx, kind, from) ==
    {j \in 1..Len(tx.instructions) :
        tx.instructions[j].kind = kind /\ tx.instructions[j].from = from}

----------------------------------------------------------------------------
(* C8 as stated: for every source list, also one in which a signer occurs  *)
(* more than once, no signer has operations in two different batches, and  *)
(* the batches concatenated are the planner's output.                      *)
C8_Original ==
    op \in CollectOps /\ Batched =>
        /\ \A j \in 1..NumBatches : \A k \in 1..NumBatches :
               j # k => BatchSigners(j) \cap BatchSigners(k) = {}
        /\ Flatten(instructionAndSignerGroups) = instructionAndSigners

----------------------------------------------------------------------------
(* C9 as stated: under Fixed(amount), once the accounts have been probed,  *)
(* the plan holds exactly the probed accounts whose balance >= amount, in  *)
(* order, each with one transfer of amount x 10^decimals raw units for a   *)
(* token and amount x 10^9 lamports for the native coin.                   *)
C9_Original ==
    /\ op = "collectSOL" /\ (Batched \/ raised = "RangeError: not an integer") =>
           /\ PlanSigners = SelectSeq(sources, QualifiesNative)
           /\ \A i \in 1..Len(instructionAndSigners) :
                  instructionAndSigners[i].instruction =
                      Some(SystemTransfer(PlanSigners[i], payer,
                               Val(amount) * (LAMPORTS_PER_SOL \div MilliPerUnit)))
    /\ op = "collectToken" /\ (Batched \/ raised = "RangeError: not an integer") =>
           /\ PlanSigners = SelectSeq(sources, QualifiesToken)
           /\ \A i \in 1..Len(instructionAndSigners) :
                  LET ins == instructionAndSigners[i].instruction IN
                  /\ ~IsNull(ins)
                  /\ Val(ins).kind = "tokenTransfer"
                  /\ Val(ins).from = getAssociatedTokenAddressSync(PlanSigners[i])
                  /\ Val(ins).to = targetAta
                  /\ Val(ins).amount * MilliPerUnit = Val(amount) * Pow10(decimals)

----------------------------------------------------------------------------
----------------------------------------------------------------------------
(* More vocabulary: the All policy *)

NonzeroNative(w) == ~IsNull(NativeAccount(w)) /\ Val(NativeAccount(w)) # 0

NonzeroToken(w) == HasTokenAccount(w) /\ Val(TokenAccount(w)) # 0

\* one transfer of the whole balance per position of sources holding a nonzero balance
FullNativeTransfers ==
    LET S == SelectSeq(sources, NonzeroNative)
    IN  [i \in 1..Len(S) |-> SystemTransfer(S[i], payer, Val(NativeAccount(S[i])))]

FullTokenTransfers ==
    LET S == SelectSeq(sources, NonzeroToken)
    IN  [i \in 1..Len(S) |->
            createTransferInstruction(getAssociatedTokenAddressSync(S[i]), targetAta, S[i],
                                      Val(TokenAccount(S[i])))]

TransfersOf(tx) == SelectSeq(tx.instructions,
                             LAMBDA ins : ins.kind \in {"systemTransfer", "tokenTransfer"})

SentTransfers == Flatten([k \in 1..Len(sent) |-> TransfersOf(sent[k].transaction)])

----------------------------------------------------------------------------
(* C11: under All (collectAllSOL, collectAllTokenAndCloseAccount) the plan *)
(* holds, in probe order, exactly one transfer instruction per probed      *)
(* position whose account holds a nonzero balance, its amount being the    *)
(* whole raw balance seen by the probe (all lamports, the whole raw token  *)
(* amount); a position with balance zero or without an account gets no     *)
(* transfer instruction; a run that returns has submitted exactly these    *)
(* transfers.                                                              *)
C11_AllTransfersWholeBalance ==
    /\ op = "collectAllSOL" /\ Batched =>
           /\ PlanSigners = SelectSeq(sources, NonzeroNative)
           /\ NonNullInstructions(instructionAndSigners) = FullNativeTransfers
           /\ pc = "done" => SentTransfers = FullNativeTransfers
    /\ op = "collectAllTokenAndCloseAccount" /\ Batched =>
           /\ NonNullInstructions(instructionAndSigners) = FullTokenTransfers
           /\ \A i \in 1..Len(instructionAndSigners) :
                  IsNull(instructionAndSigners[i].instruction)
                      <=> ~NonzeroToken(instructionAndSigners[i].signers)
           /\ pc = "done" => SentTransfers = FullTokenTransfers

\* collectAllSOL returned after moving the whole balance of some sources, other
\* sources holding nothing
C11_Witness ==
    /\ op = "collectAllSOL" /\ pc = "done"
    /\ Len(sent) = 1 /\ Len(SentTransfers) >= 2
    /\ \E i \in 1..Len(sources) : ~NonzeroNative(sources[i])
    /\ \E j \in 1..Len(SentTransfers) :
           SentTransfers[j].amount = LAMPORTS_PER_SOL \div 2

----------------------------------------------------------------------------
(* More vocabulary: the balance queries *)

QueryDone == pc = "done" /\ ~IsNull(result)

\* the lamports a formatted balance stands for
ParseSol(b) == b.whole * LAMPORTS_PER_SOL + b.nanos

\* the uiAmount of the sub-account of owner w, 0 without a sub-account
OwnerUiAmount(w) ==
    IF HasTokenAccount(w) THEN (Val(TokenAccount(w)) * MilliPerUnit) \div Pow10(decimals) ELSE 0

----------------------------------------------------------------------------
(* C12: queryMultipleBalance returns exactly one record per input address, *)
(* in input order, also for a list longer than one chunk of 50: record k   *)
(* carries address k of the input and that address's balance in lamports   *)
(* written in SOL, and an address without an account gets a record with    *)
(* balance 0 instead of being left out; while the query runs, res holds    *)
(* the records of the chunks probed so far.                                *)
C12_QueryBalanceOneRecordPerAddress ==
    op = "queryMultipleBalance" /\ pc \in {"probe", "done"} =>
        /\ Len(res) = Min((chunk - 1) * QueryGroupSize, Len(queryAccounts))
        /\ \A k \in 1..Len(res) :
               /\ res[k].address = queryAccounts[k]
               /\ res[k].balance.unit = "SOL"
               /\ res[k].balance.nanos \in 0..(LAMPORTS_PER_SOL - 1)
               /\ ParseSol(res[k].balance) = getBalance(queryAccounts[k])
        /\ pc = "done" => result = Some(res) /\ Len(res) = Len(queryAccounts)

\* 51 addresses were queried in two chunks; the last one has no account, its
\* neighbour holds half a SOL
C12_Witness ==
    /\ op = "queryMultipleBalance" /\ QueryDone
    /\ Len(Val(result)) = QueryGroupSize + 1 /\ Len(calls) = 2
    /\ IsNull(NativeAccount(queryAccounts[QueryGroupSize + 1]))
    /\ Val(result)[QueryGroupSize + 1].balance = FormatSol(0)
    /\ Val(result)[QueryGroupSize].balance.nanos = LAMPORTS_PER_SOL \div 2

----------------------------------------------------------------------------
(* C13 as stated: queryMultipleTokenBalance returns exactly one record per *)
(* input owner, in input order, also for a list longer than one chunk of   *)
(* 50, and record k carries the address of owner k of the input together   *)
(* with the balance of that owner's sub-account (0 without a sub-account). *)
C13_Original ==
    op \in TokenQueryOps /\ QueryDone =>
        /\ Len(Val(result)) = Len(queryAccounts)
        /\ \A k \in 1..Len(Val(result)) :
               /\ Val(result)[k].address = queryAccounts[k]
               /\ Val(result)[k].balance = OwnerUiAmount(queryAccounts[k])

----------------------------------------------------------------------------
(* More vocabulary: the layout of a transaction *)

\* position of an instruction kind in create -> transfers -> closes
KindRank(kind) == IF kind = "createAta" THEN 0 ELSE IF kind = "close" THEN 2 ELSE 1

OfKind(tx, kind) == SelectSeq(tx.instructions, LAMBDA ins : ins.kind = kind)

\* the transfer instructions of batch k, in batch order
BatchTransfers(k) ==
    LET withTransfer == SelectSeq(instructionAndSignerGroups[k],
                                  LAMBDA item : ~IsNull(item.instruction))
    IN  [i \in 1..Len(withTransfer) |-> Val(withTransfer[i].instruction)]

\* the close instructions of batch k, in batch order
BatchCloses(k) ==
    LET withClose == SelectSeq(instructionAndSignerGroups[k],
                               LAMBDA item : ~IsNull(item.closeInstruction))
    IN  [i \in 1..Len(withClose) |-> Val(withClose[i].closeInstruction)]

CreateTransfersCloses(tx, k) ==
    /\ \A i \in 1..Len(tx.instructions) : \A j \in 1..Len(tx.instructions) :
           i < j => KindRank(tx.instructions[i].kind) <= KindRank(tx.instructions[j].kind)
    /\ OfKind(tx, "tokenTransfer") = BatchTransfers(k)
    /\ OfKind(tx, "close") = (IF op = "collectAllTokenAndCloseAccount" THEN BatchCloses(k)
                              ELSE <<>>)
    /\ Len(OfKind(tx, "createAta")) <= 1
    /\ Len(tx.instructions) = Len(OfKind(tx, "createAta")) + Len(OfKind(tx, "tokenTransfer"))
                              + Len(OfKind(tx, "close"))

----------------------------------------------------------------------------
(* C14: every transaction assembled by collectToken and                    *)
(* collectAllTokenAndCloseAccount holds its instructions in the order      *)
(* create-destination (if present), then the transfer instructions of the  *)
(* batch in batch order, then the close instructions of the batch in batch *)
(* order: no close precedes a transfer and the create precedes every       *)
(* transfer; this holds for the transaction being assembled and for every  *)
(* transaction submitted.                                                  *)
C14_CreateThenTransfersThenCloses ==
    op \in TokenCollectOps =>
        /\ \A k \in 1..Len(sent) : CreateTransfersCloses(sent[k].transaction, k)
        /\ ~IsNull(transaction) /\ pc \in {"send", "confirm"} =>
               CreateTransfersCloses(Val(transaction), batch)

\* a submitted transaction with the create instruction, two transfers and three closes
C14_Witness ==
    /\ op = "collectAllTokenAndCloseAccount"
    /\ \E k \in 1..Len(sent) :
           LET tx == sent[k].transaction IN
           /\ tx.instructions[1].kind = "createAta"
           /\ Len(OfKind(tx, "tokenTransfer")) = 2
           /\ Len(OfKind(tx, "close")) = 3
           /\ OfKind(tx, "tokenTransfer")[1] # OfKind(tx, "tokenTransfer")[2]

----------------------------------------------------------------------------
(* More vocabulary: the size of a batch *)

NativeTransferOps == {"collectSOL", "collectAllSOL", "allocationSOL"}

\* the cap the claim gives to each operation shape
ClaimedCap ==
    IF op \in NativeTransferOps THEN 20
    ELSE IF op = "collectToken" THEN 10
    ELSE 5

\* the planned operations a transaction carries: one native transfer, one token
\* transfer, or one close (with or without transfer) each
OperationsIn(tx) ==
    IF op \in NativeTransferOps THEN Len(OfKind(tx, "systemTransfer"))
    ELSE IF op = "collectToken" THEN Len(OfKind(tx, "tokenTransfer"))
    ELSE Len(OfKind(tx, "close"))

----------------------------------------------------------------------------
(* C15: every submitted transaction respects the cap of its operation      *)
(* shape, whatever the size of the input: at most 20 planned operations    *)
(* for the native transfers (collectSOL, collectAllSOL, allocationSOL), at *)
(* most 10 for collectToken and at most 5 for                              *)
(* collectAllTokenAndCloseAccount; the same holds for every batch cut from *)
(* the plan.                                                               *)
C15_BatchWithinCap ==
    op \in NativeTransferOps \cup TokenCollectOps =>
        /\ \A k \in 1..Len(sent) : OperationsIn(sent[k].transaction) <= ClaimedCap
        /\ \A k \in 1..Len(instructionAndSignerGroups) :
               Len(instructionAndSignerGroups[k]) <= ClaimedCap
        /\ op = "allocationSOL" => \A k \in 1..Len(accountGroups) :
               Len(accountGroups[k]) <= ClaimedCap

\* allocationSOL to 21 targets: a full transaction of 20 transfers, then one of 1
C15_Witness ==
    /\ op = "allocationSOL" /\ pc = "done"
    /\ Len(sent) = 2
    /\ OperationsIn(sent[1].transaction) = 20
    /\ OperationsIn(sent[2].transaction) = 1

----------------------------------------------------------------------------
(* More vocabulary: the signers of a submission *)

NoRepeat(seq) == \A i \in 1..Len(seq) : \A j \in 1..Len(seq) : i # j => seq[i] # seq[j]

\* the addresses of the per-account signers of batch k, in batch order
SignerAddresses(k) ==
    [i \in 1..Len(instructionAndSignerGroups[k]) |-> instructionAndSignerGroups[k][i].signers]

----------------------------------------------------------------------------
(* C16 as stated: the signer list handed to every submission (the fee      *)
(* payer, then the signers of the batch) holds each address at most once,  *)
(* also when a source occurs twice in the input.                           *)
C16_Original ==
    op \in CollectOps => \A k \in 1..Len(sent) : NoRepeat(sent[k].transaction.signers)

----------------------------------------------------------------------------
(* C17: in collectSOL, collectAllSOL, collectToken and                     *)
(* collectAllTokenAndCloseAccount every batch gets exactly one outcome     *)
(* before the next batch starts: a success record (the transaction id and  *)
(* the table of address and amount of every account of the batch) or a     *)
(* warning naming the address of every per-account signer of the batch;    *)
(* the k-th outcome is the outcome of batch k, no submitted batch is left  *)
(* without one, and none has two.                                          *)
C17_OneOutcomePerBatch ==
    op \in NewCollectOps =>
        /\ \A k \in 1..Len(outcomes) :
               /\ outcomes[k].batch = k
               /\ outcomes[k].kind \in {"table", "warn"}
               /\ outcomes[k].addresses = SignerAddresses(k)
               /\ outcomes[k].kind = "table" =>
                      /\ outcomes[k].tx = k
                      /\ Len(outcomes[k].amounts) = Len(instructionAndSignerGroups[k])
                      /\ \A i \in 1..Len(outcomes[k].amounts) :
                             outcomes[k].amounts[i] = instructionAndSignerGroups[k][i].amount
        /\ Len(outcomes) <= Len(sent)
        /\ Len(sent) <= Len(outcomes) + 1
        /\ Len(sent) = Len(outcomes) + 1 <=> pc = "confirm"
        /\ pc \in {"blockhash", "send"} => Len(outcomes) = batch - 1
        /\ pc = "done" => Len(outcomes) = NumBatches

\* a run of two batches: the first failed and its warning names ten signers, the
\* second succeeded
C17_Witness ==
    /\ op = "collectToken" /\ pc = "done"
    /\ Len(outcomes) = 2
    /\ outcomes[1].kind = "warn" /\ Len(outcomes[1].addresses) = TokenGroupSize
    /\ outcomes[2].kind = "table" /\ outcomes[2].tx = 2

----------------------------------------------------------------------------
(* C18 as stated: when the derivation of the sub-account address fails for *)
(* one owner of the list, the call does not raise, and every other owner   *)
(* of the list still gets its record.                                      *)
C18_Original ==
    op \in TokenQueryOps /\ (\E i \in 1..Len(queryAccounts) : queryAccounts[i] \in offCurve) =>
        /\ raised # "TokenOwnerOffCurveError"
        /\ pc = "done" =>
               \A i \in 1..Len(queryAccounts) :
                   queryAccounts[i] \notin offCurve =>
                       \E k \in 1..Len(res) : res[k].address = queryAccounts[i]

----------------------------------------------------------------------------
(* More vocabulary: the RPC calls around a submission *)

CallsNamed(name) == {i \in 1..Len(calls) : calls[i] = name}

\* the position in calls of the k-th submission, 0 for k = 0
RECURSIVE SubmissionAt(_)
SubmissionAt(k) ==
    IF k = 0 THEN 0
    ELSE CHOOSE p \in CallsNamed("sendAndConfirmTransaction") :
             Cardinality({q \in CallsNamed("sendAndConfirmTransaction") : q <= p}) = k

\* the block-reference fetches between submission k - 1 and submission k
FetchesBefore(k) ==
    {q \in CallsNamed("getLatestBlockhash") : SubmissionAt(k - 1) < q /\ q < SubmissionAt(k)}

----------------------------------------------------------------------------
(* C19 as stated: in every collect operation, native and token, each batch *)
(* has its own fetch of the latest block reference, made by the call after *)
(* the outcome of the previous batch and before the submission of this     *)
(* one, and no two submitted transactions carry the same block reference.  *)
C19_Original ==
    op \in CollectOps =>
        /\ \A k \in 1..Len(sent) :
               /\ FetchesBefore(k) # {}
               /\ ~IsNull(sent[k].transaction.recentBlockhash)
        /\ \A j \in 1..Len(sent) : \A k \in 1..Len(sent) :
               j # k => sent[j].transaction.recentBlockhash # sent[k].transaction.recentBlockhash

----------------------------------------------------------------------------
(* C20 as stated: a collect run gets past the upfront check only when the  *)
(* fee payer's balance is strictly above the reserve of 0.001 native units *)
(* (1,000,000 lamports); a balance equal to the reserve is fatal.          *)
C20_Original ==
    op \in CollectOps /\ pc \in {"probe", "blockhash", "send", "confirm", "done"} =>
        getBalance(payer) > LAMPORTS_PER_SOL \div MilliPerUnit

----------------------------------------------------------------------------
(* C21 as stated: group(data, size) called with size <= 0 ends in an error *)
(* for every data, also non-empty data with size 0 or a negative size: it  *)
(* does not return a list of chunks, and its loop does not go on beyond    *)
(* the iterations a loop over data can need.                               *)
C21_Original ==
    op = "group" /\ size <= 0 =>
        /\ pc # "done"
        /\ Len(Pushed) <= Len(data)
        /\ pc \notin {"idle", "start"} => pc = "error"

----------------------------------------------------------------------------
(* More vocabulary: scaled amounts *)

\* the raw amount is exactly amount x 10^decimals (amount held in thousandths)
ExactlyScaled(raw) == raw * MilliPerUnit = Val(amount) * Pow10(decimals)

AllSentInstructions == Flatten([k \in 1..Len(sent) |-> sent[k].transaction.instructions])

----------------------------------------------------------------------------
(* C22 as stated: for every amount > 0 and every decimals, also an amount  *)
(* that is not a whole number of units, planning a token transfer          *)
(* (collectToken) or building a mint instruction (batchMintTo) does not    *)
(* raise, and the raw amount of every such instruction is exactly          *)
(* amount x 10^decimals.                                                   *)
C22_Original ==
    op \in {"collectToken", "batchMintTo"} /\ ~IsNull(amount) /\ Val(amount) > 0 =>
        /\ raised # "RangeError: not an integer"
        /\ \A i \in 1..Len(instructionAndSigners) :
               LET ins == instructionAndSigners[i].instruction
               IN  ~IsNull(ins) => ExactlyScaled(Val(ins).amount)
        /\ \A j \in 1..Len(AllSentInstructions) :
               AllSentInstructions[j].kind \in {"tokenTransfer", "mintTo"}
                   => ExactlyScaled(AllSentInstructions[j].amount)

----------------------------------------------------------------------------
(* More vocabulary: allocationSOL *)

\* amount x |targets| in lamports
AllocationTotal == Val(amount) * Len(targets) * (LAMPORTS_PER_SOL \div MilliPerUnit)

AllocationUnderfunded == getBalance(payer) = 0 \/ getBalance(payer) < AllocationTotal

\* one transfer of amount from the payer per entry of targets, in order
AllocationTransfers ==
    [i \in 1..Len(targets) |->
        SystemTransfer(payer, targets[i], Val(amount) * (LAMPORTS_PER_SOL \div MilliPerUnit))]

----------------------------------------------------------------------------
(* C23: allocationSOL raises 'payer balance is not enough' before any      *)
(* transaction is built or submitted whenever the payer's balance is 0 or  *)
(* less than amount x |targets| lamports; otherwise the transactions it    *)
(* submits hold, in the order of targets, exactly one transfer of amount   *)
(* from the payer per entry of targets, at most 20 per transaction.        *)
C23_AllocationChecksThenTransfersToEveryTarget ==
    op = "allocationSOL" =>
        /\ AllocationUnderfunded =>
               /\ pc \in {"start", "error"}
               /\ sent = <<>> /\ IsNull(transaction)
               /\ ~IsNull(balance) => pc = "error" /\ raised = "payer balance is not enough"
        /\ ~AllocationUnderfunded =>
               /\ raised # "payer balance is not enough"
               /\ AllSentInstructions = SubSeq(AllocationTransfers, 1, Len(AllSentInstructions))
               /\ \A k \in 1..Len(sent) : Len(sent[k].transaction.instructions) \in 1..20
               /\ pc = "done" => AllSentInstructions = AllocationTransfers

\* the payer holds something, but less than the 21 targets need
C23_Witness ==
    /\ op = "allocationSOL" /\ pc = "error" /\ raised = "payer balance is not enough"
    /\ Val(balance) > 0 /\ Len(targets) = MaxNativeSources /\ sent = <<>>

----------------------------------------------------------------------------
(* More vocabulary: the connection-global module *)

LegacyOps == {"allocation", "collect", "legacy_collectToken"}

\* the transactions a run that has planned its batches is to submit
BatchesToSubmit ==
    IF op \in {"allocation", "allocationSOL", "batchMintTo"} THEN Len(accountGroups)
    ELSE NumBatches

----------------------------------------------------------------------------
(* C24 as stated: in the older allocation, collect and collectToken a      *)
(* batch whose submission or confirmation fails does not end the run: the  *)
(* error does not escape the call, and a failed batch that is not the last *)
(* one is followed by the submission of the next.                          *)
C24_Original ==
    op \in LegacyOps =>
        /\ raised # "sendAndConfirmTransaction"
        /\ pc = "done" => Len(sent) = BatchesToSubmit

----------------------------------------------------------------------------
(* C25 as stated: in the older collectToken called with an amount, once    *)
(* the sub-accounts are probed the plan holds, in order, exactly the       *)
(* sources whose balance is >= amount, each with a transfer of exactly     *)
(* amount x 10^decimals raw units; a source whose balance is < amount is   *)
(* skipped.                                                                *)
C25_Original ==
    op = "legacy_collectToken" /\ ~IsNull(amount) /\ Batched =>
        /\ PlanSigners = SelectSeq(sources, QualifiesToken)
        /\ \A i \in 1..Len(instructionAndSigners) :
               LET ins == instructionAndSigners[i].instruction IN
               /\ ~IsNull(ins)
               /\ Val(ins).kind = "tokenTransfer"
               /\ Val(ins).from = getAssociatedTokenAddressSync(PlanSigners[i])
               /\ ExactlyScaled(Val(ins).amount)

----------------------------------------------------------------------------
(* C26 as stated: whatever the sources, the fee payer and the destination  *)
(* (a fee payer or a destination that is itself one of the sources         *)
(* included), no transaction holds a transfer from an account to itself,   *)
(* and collectAllTokenAndCloseAccount never closes the destination         *)
(* sub-account.                                                            *)
C26_Original ==
    op \in NewCollectOps =>
        \A k \in 1..Len(sent) :
            LET ins == sent[k].transaction.instructions IN
            \A j \in 1..Len(ins) :
                /\ ins[j].kind \in {"systemTransfer", "tokenTransfer"} =>
                       ins[j].from # ins[j].to
                /\ op = "collectAllTokenAndCloseAccount" /\ ins[j].kind = "close" =>
                       ins[j].from # targetAta

----------------------------------------------------------------------------
(* More vocabulary: the plan as a whole *)

SubmittingOps ==
    NewCollectOps \cup LegacyOps \cup {"allocationSOL", "batchMintTo"}

\* the kinds of instruction that move or mint funds, or close a sub-account
PlannedKinds == {"systemTransfer", "tokenTransfer", "close", "mintTo"}

\* the batches are known and there is none
EmptyPlan == op \in SubmittingOps /\ Batched /\ BatchesToSubmit = 0

----------------------------------------------------------------------------
(* C27: no operation submits a transaction without instructions: every     *)
(* submitted transaction holds at least one transfer, close or mint        *)
(* instruction. When the plan is empty (no input, or every account         *)
(* skipped) nothing is submitted and nothing is raised, and the one step   *)
(* the call still takes is its return.                                     *)
C27_NoEmptyTransaction ==
    /\ [](/\ \A k \in 1..Len(sent) :
                 \E j \in 1..Len(sent[k].transaction.instructions) :
                     sent[k].transaction.instructions[j].kind \in PlannedKinds
          /\ EmptyPlan =>
                 /\ sent = <<>> /\ outcomes = <<>>
                 /\ CallsNamed("sendAndConfirmTransaction") = {}
                 /\ pc # "confirm" /\ raised = "")
    /\ [][EmptyPlan /\ pc # "done" => pc' = "done" /\ sent' = <<>> /\ raised' = ""]_vars

\* a token sweep over sources none of which has a sub-account returns without a submission
C27_Witness ==
    /\ op = "collectAllTokenAndCloseAccount" /\ pc = "done"
    /\ Len(sources) = MaxTokenSources /\ instructionAndSigners = <<>>
    /\ sent = <<>> /\ Len(calls) >= 3

----------------------------------------------------------------------------
(* More vocabulary: the number of submissions *)

\* the planned operations of the run: items of the plan, or targets
PlannedOperations ==
    IF op \in {"allocation", "allocationSOL"} THEN Len(targets)
    ELSE IF op = "batchMintTo" THEN Len(res)
    ELSE Len(instructionAndSigners)

\* the group size of the operation shape
ShapeCap ==
    IF op \in {"collectSOL", "collectAllSOL", "collect", "allocation", "allocationSOL"} THEN 20
    ELSE IF op = "collectToken" THEN 10
    ELSE IF op = "legacy_collectToken" THEN (IF IsNull(amount) THEN 5 ELSE 10)
    ELSE 5

CeilDiv(n, d) == (n + d - 1) \div d

\* the run has ended after its batches were known: it returned, or an error left the
\* loop over the batches
EndedAfterPlanning ==
    \/ pc = "done"
    \/ /\ pc = "error"
       /\ \/ raised \in {"getLatestBlockhash", "sendAndConfirmTransaction"}
          \/ op = "batchMintTo" /\ raised = "RangeError: not an integer"

----------------------------------------------------------------------------
(* C28 as stated: every collect, allocation and mint run that ends has     *)
(* attempted exactly ceil(P / cap) submissions, P the number of planned    *)
(* operations and cap the group size of the operation shape, whatever      *)
(* requests were rejected on the way.                                      *)
C28_Original ==
    op \in SubmittingOps /\ EndedAfterPlanning =>
        Len(sent) = CeilDiv(PlannedOperations, ShapeCap)

----------------------------------------------------------------------------
(* More vocabulary: the instructions of a mint run *)

Positions(instructions, kind) ==
    {j \in 1..Len(instructions) : instructions[j].kind = kind}

\* the destinations of the mint instructions submitted so far, in order
MintDestinations ==
    LET mints == SelectSeq(AllSentInstructions, LAMBDA i : i.kind = "mintTo")
    IN  [j \in 1..Len(mints) |-> mints[j].to]

----------------------------------------------------------------------------
(* C29 as stated: in batchMintTo, for every list of targets (a target may  *)
(* occur more than once), a run that returns has submitted exactly one     *)
(* mint instruction per entry of targets, in order; a create instruction   *)
(* stands immediately before the mint instruction of a target exactly when *)
(* the target's sub-account was missing at probe time; and over the whole  *)
(* run no sub-account is created by more than one instruction.             *)
C29_Original ==
    op = "batchMintTo" =>
        /\ pc = "done" =>
               MintDestinations =
                   [i \in 1..Len(targets) |-> getAssociatedTokenAddressSync(targets[i])]
        /\ \A k \in 1..Len(sent) :
               LET ins == sent[k].transaction.instructions IN
               /\ \A j \in Positions(ins, "mintTo") :
                      ~AtaExists(ins[j].to) <=>
                          /\ j > 1
                          /\ ins[j - 1].kind = "createAta"
                          /\ ins[j - 1].to = ins[j].to
               /\ \A j \in Positions(ins, "createAta") :
                      /\ j < Len(ins)
                      /\ ins[j + 1].kind = "mintTo"
                      /\ ins[j + 1].to = ins[j].to
        /\ \A i, j \in Positions(AllSentInstructions, "createAta") :
               AllSentInstructions[i].to = AllSentInstructions[j].to => i = j

----------------------------------------------------------------------------
(* More vocabulary: probes *)

\* the requests that read account state: the fee payer's balance, the mint, the sources
\* and the destination sub-account
ProbeNames == {"getBalance", "getAccountInfo", "getMultipleAccountsInfo",
               "getMultipleParsedAccounts", "getParsedAccountInfo"}

Probes == {i \in 1..Len(calls) : calls[i] \in ProbeNames}

\* what the batches are built from
Plan == <<accountGroups, instructionAndSigners, instructionAndSignerGroups, res>>

----------------------------------------------------------------------------
(* C30: in every collect and mint run all the probes of account state (the *)
(* sources' balances or existence, the destination lookup) are requested   *)
(* before the first submission and none after a submission; from the first *)
(* submission on the plan is never changed, whatever became of the earlier *)
(* batches.                                                                *)
C30_ProbesPrecedeSubmissions ==
    /\ [](op \in SubmittingOps =>
              \A i \in Probes, j \in CallsNamed("sendAndConfirmTransaction") : i < j)
    /\ [][sent # <<>> /\ op \in SubmittingOps => Plan' = Plan]_vars

\* a token collect whose first batch failed and whose second batch went through, after
\* the probes of 11 sources and of the destination
C30_Witness ==
    /\ op = "collectAllTokenAndCloseAccount" /\ pc = "done"
    /\ Len(sent) = 3 /\ Kinds(1) = "warn" /\ Kinds(2) = "table"
    /\ Cardinality(Probes) = 3

====
